---- MODULE Spec2Model ----
(***************************************************************************)
(* A model of helix-content-bus: the AWSStorage client of src/storage.js   *)
(* (lazy bucket provisioning, load / metadata / store / copy / close),     *)
(* the content-proxy fetch of src/content-proxy.js and the handler main of *)
(* src/index.js, run against an S3 backend that behaves as the command     *)
(* classes of test/storage.test.js do.                                     *)
(***************************************************************************)
EXTENDS Integers, Sequences, FiniteSets, TLC

VARIABLES
    s3,        \* the backend: bucket name -> bucket (existence, objects, policy, tags)
    clients,   \* the AWSStorage instances: client id -> its fields
    calls,     \* the backend commands sent by the last operation, in order, each
               \* with the error it was answered with (NoErr when it went through)
    result,    \* the last operation: what was called, with what, and how it ended
    created    \* client id -> number of buckets its instance has created

vars == <<s3, clients, calls, result, created>>

(***************************************************************************)
(* Bounds of the model.                                                    *)
(***************************************************************************)
\* longest body stored or fetched
MaxLen == 3

(***************************************************************************)
(* Bytes and gzip.  A body is a sequence of bytes.  zlib.gzip is modelled  *)
(* by its shape: a magic header, a run-length coded payload and a trailer  *)
(* carrying the length of the input; zlib.gunzip checks the header and the *)
(* trailer and fails on anything else.                                     *)
(***************************************************************************)
Bytes == {0, 1}

RECURSIVE SeqsUpTo(_, _)
SeqsUpTo(S, n) ==
    IF n = 0 THEN {<<>>}
    ELSE LET shorter == SeqsUpTo(S, n - 1)
         IN  shorter \cup {Append(q, x) : q \in {p \in shorter : Len(p) = n - 1}, x \in S}

Bodies == SeqsUpTo(Bytes, MaxLen)

\* ID1, ID2 of a gzip member
GzipMagic == <<31, 139>>

\* length of the run of equal bytes that starts b
RECURSIVE RunLen(_)
RunLen(b) ==
    IF Len(b) <= 1 THEN Len(b)
    ELSE IF b[1] = b[2] THEN 1 + RunLen(Tail(b)) ELSE 1

\* the payload: each run as <count, byte>
RECURSIVE Deflate(_)
Deflate(b) ==
    IF b = <<>> THEN <<>>
    ELSE LET n == RunLen(b)
         IN  <<n, b[1]>> \o Deflate(SubSeq(b, n + 1, Len(b)))

RECURSIVE Inflate(_)
Inflate(z) ==
    IF Len(z) < 2 THEN <<>>
    ELSE [i \in 1..z[1] |-> z[2]] \o Inflate(SubSeq(z, 3, Len(z)))

\* gzip with its payload cut after the first run (a lossy gzip)
gzipFirstRunOnly(body) ==
    GzipMagic \o (IF body = <<>> THEN <<>> ELSE <<RunLen(body), body[1]>>) \o <<Len(body)>>

gzip(body) == GzipMagic \o Deflate(body) \o <<Len(body)>>

IsGzip(buf) ==
    /\ Len(buf) >= 3
    /\ SubSeq(buf, 1, 2) = GzipMagic
    /\ (Len(buf) - 3) % 2 = 0
    /\ Len(Inflate(SubSeq(buf, 3, Len(buf) - 1))) = buf[Len(buf)]

\* defined where IsGzip(buf); gunzip of anything else raises (see load)
gunzip(buf) == Inflate(SubSeq(buf, 3, Len(buf) - 1))

(***************************************************************************)
(* Header names.  A name is the sequence of its characters, so that the    *)
(* name arithmetic of store (split at '-', capitalise, join) is computed.  *)
(***************************************************************************)
Lower == <<"a","b","c","d","e","f","g","h","i","j","k","l","m",
           "n","o","p","q","r","s","t","u","v","w","x","y","z">>
Upper == <<"A","B","C","D","E","F","G","H","I","J","K","L","M",
           "N","O","P","Q","R","S","T","U","V","W","X","Y","Z">>

\* String.prototype.toUpperCase on one character
toUpperCase(ch) ==
    IF \E i \in 1..26 : Lower[i] = ch
    THEN Upper[CHOOSE i \in 1..26 : Lower[i] = ch]
    ELSE ch

\* name.split(sep): the segments between the separators
RECURSIVE split(_, _)
split(name, sep) ==
    IF \A i \in 1..Len(name) : name[i] # sep THEN <<name>>
    ELSE LET i == CHOOSE j \in 1..Len(name) :
                      name[j] = sep /\ \A k \in 1..(j - 1) : name[k] # sep
         IN  <<SubSeq(name, 1, i - 1)>> \o split(SubSeq(name, i + 1, Len(name)), sep)

\* segs.join('')
RECURSIVE join(_)
join(segs) == IF segs = <<>> THEN <<>> ELSE Head(segs) \o join(Tail(segs))

h_cache_control  == <<"c","a","c","h","e","-","c","o","n","t","r","o","l">>
h_content_type   == <<"c","o","n","t","e","n","t","-","t","y","p","e">>
h_expires        == <<"e","x","p","i","r","e","s">>
h_last_modified  == <<"l","a","s","t","-","m","o","d","i","f","i","e","d">>
h_x_source_last_modified ==
    <<"x","-","s","o","u","r","c","e","-">> \o h_last_modified
h_x_source_location ==
    <<"x","-","s","o","u","r","c","e","-","l","o","c","a","t","i","o","n">>
h_vary           == <<"v","a","r","y">>
h_access_control_allow ==
    <<"a","c","c","e","s","s","-","c","o","n","t","r","o","l","-","a","l","l","o","w","-">>
h_access_control_allow_headers == h_access_control_allow \o <<"h","e","a","d","e","r","s">>
h_access_control_allow_methods == h_access_control_allow \o <<"m","e","t","h","o","d","s">>
h_access_control_allow_origin  == h_access_control_allow \o <<"o","r","i","g","i","n">>
h_surrogate_control == <<"s","u","r","r","o","g","a","t","e","-","c","o","n","t","r","o","l">>
h_surrogate_key     == <<"s","u","r","r","o","g","a","t","e","-","k","e","y">>
h_x_error        == <<"x","-","e","r","r","o","r">>

\* the properties of a PutObject input that S3 stores as system attributes
p_CacheControl == <<"C","a","c","h","e","C","o","n","t","r","o","l">>
p_ContentType  == <<"C","o","n","t","e","n","t","T","y","p","e">>
p_Expires      == <<"E","x","p","i","r","e","s">>
S3SystemProperties == {p_CacheControl, p_ContentType, p_Expires}

\* Headers iterate in the order of their names; these are the names in that order
HeaderOrder ==
    <<h_access_control_allow_headers, h_access_control_allow_methods,
      h_access_control_allow_origin, h_cache_control, h_content_type, h_expires,
      h_last_modified, h_surrogate_control, h_surrogate_key, h_vary,
      h_x_error, h_x_source_last_modified, h_x_source_location>>

\* headers.entries(): the [name, value] pairs of a header map h, sorted by name
RECURSIVE entriesFrom(_, _)
entriesFrom(h, i) ==
    IF i > Len(HeaderOrder) THEN <<>>
    ELSE (IF HeaderOrder[i] \in DOMAIN h
          THEN <<(<<HeaderOrder[i], h[HeaderOrder[i]]>>)>> ELSE <<>>)
         \o entriesFrom(h, i + 1)

entries(h) == entriesFrom(h, 1)

(***************************************************************************)
(* Errors.  An error raised by the S3 client carries $metadata (the http   *)
(* status) and, when S3 sent an error document, its Code; an Error made by *)
(* this program carries a message and possibly a status.                   *)
(***************************************************************************)
NoErr == [isErr |-> FALSE]

S3Error(httpStatusCode, Code) ==
    [isErr |-> TRUE, name |-> "S3ServiceException", hasMetadata |-> TRUE,
     httpStatusCode |-> httpStatusCode, Code |-> Code, message |-> Code, status |-> 0]

Error(message, status) ==
    [isErr |-> TRUE, name |-> "Error", hasMetadata |-> FALSE,
     httpStatusCode |-> 0, Code |-> "", message |-> message, status |-> status]

\* reading e.$metadata.httpStatusCode of an error that has no $metadata
TypeError ==
    [isErr |-> TRUE, name |-> "TypeError", hasMetadata |-> FALSE,
     httpStatusCode |-> 0, Code |-> "",
     message |-> "Cannot read property 'httpStatusCode' of undefined", status |-> 0]

(***************************************************************************)
(* The S3 backend.  Buckets hold objects under keys; an object is its      *)
(* body, its content encoding, its metadata map and its system attributes. *)
(***************************************************************************)
TEMPLATE_BUCKET == "helix-content-bus-template"
CODE_BUCKET     == "helix-code-bus"
\* the buckets of the mount urls https://drive/x and https://drive/y
ContentBucket   == "h35105f95407be955576a1a5b659cdecafc82ebe2405a07247a53414fd992"
OtherBucket     == "h3ee97c1566a90787e3d1a38ba1a130cf17c3169320d7ad10b207a81d3dc0"
Buckets == {TEMPLATE_BUCKET, CODE_BUCKET, ContentBucket, OtherBucket}

Prefixes == {"live", "preview"}
Paths    == {"/mnt/a"}
\* `${owner}/${repo}/${ref}/fstab.yaml`
fstabKey(owner, repo, ref) == owner \o "/" \o repo \o "/" \o ref \o "/fstab.yaml"
FstabKey == fstabKey("o", "r", "main")
\* the mount tables of two more repositories, and a second document
MoreKeys == {fstabKey("o", "r", "dev"), fstabKey("o2", "r2", "main"),
             "live/mnt/b", "preview/mnt/b"}
Keys     == {p \o q : p \in Prefixes, q \in Paths} \cup {FstabKey} \cup MoreKeys

NoObject == [exists |-> FALSE]
NoBucket == [exists |-> FALSE]
EmptyBucket ==
    [exists |-> TRUE, objects |-> [k \in Keys |-> NoObject], pab |-> FALSE, tags |-> <<>>]

HasBucket(st, b) == b \in Buckets /\ st[b].exists
HasObject(st, b, k) == HasBucket(st, b) /\ k \in Keys /\ st[b].objects[k].exists

Reply(st, val) == [s3 |-> st, err |-> NoErr, val |-> val]
Raise(st, e)   == [s3 |-> st, err |-> e, val |-> <<>>]

HeadBucketCommand(st, c) ==
    IF HasBucket(st, c.Bucket) THEN Reply(st, [httpStatusCode |-> 200])
    ELSE Raise(st, S3Error(404, "NotFound"))

CreateBucketCommand(st, c) ==
    IF HasBucket(st, c.Bucket) THEN Raise(st, S3Error(409, "BucketAlreadyOwnedByYou"))
    ELSE Reply([st EXCEPT ![c.Bucket] = EmptyBucket], [httpStatusCode |-> 200])

GetObjectCommand(st, c) ==
    IF ~HasBucket(st, c.Bucket) THEN Raise(st, S3Error(404, "NoSuchBucket"))
    ELSE IF ~HasObject(st, c.Bucket, c.Key) THEN Raise(st, S3Error(404, "NoSuchKey"))
    ELSE Reply(st, st[c.Bucket].objects[c.Key])

HeadObjectCommand(st, c) ==
    IF ~HasObject(st, c.Bucket, c.Key) THEN Raise(st, S3Error(404, "NotFound"))
    ELSE Reply(st, st[c.Bucket].objects[c.Key])

\* the object a PutObject input describes: unknown properties are not stored
PutObjectValue(c) ==
    [exists |-> TRUE, Body |-> c.Body, ContentEncoding |-> c.ContentEncoding,
     Metadata |-> c.Metadata,
     sys |-> [p \in DOMAIN c.props \cap S3SystemProperties |-> c.props[p]]]

PutObjectCommand(st, c) ==
    IF ~HasBucket(st, c.Bucket) THEN Raise(st, S3Error(404, "NoSuchBucket"))
    ELSE Reply([st EXCEPT ![c.Bucket].objects[c.Key] = PutObjectValue(c)],
               [httpStatusCode |-> 200])

GetBucketTaggingCommand(st, c) ==
    IF HasBucket(st, c.Bucket) THEN Reply(st, [TagSet |-> st[c.Bucket].tags])
    ELSE Raise(st, S3Error(404, "NoSuchBucket"))

PutBucketTaggingCommand(st, c) ==
    IF ~HasBucket(st, c.Bucket) THEN Raise(st, S3Error(404, "NoSuchBucket"))
    ELSE Reply([st EXCEPT ![c.Bucket].tags = c.TagSet], [httpStatusCode |-> 204])

PutPublicAccessBlockCommand(st, c) ==
    IF ~HasBucket(st, c.Bucket) THEN Raise(st, S3Error(404, "NoSuchBucket"))
    ELSE Reply([st EXCEPT ![c.Bucket].pab = c.BlockAll], [httpStatusCode |-> 200])

\* CopySource is "<bucket>/<key>": the bucket and key it names, if any
CopySources(c) ==
    {bk \in Buckets \X Keys : bk[1] \o "/" \o bk[2] = c.CopySource}

CopyObjectCommand(st, c) ==
    IF ~HasBucket(st, c.Bucket) THEN Raise(st, S3Error(404, "NoSuchBucket"))
    ELSE IF \A bk \in CopySources(c) : ~HasObject(st, bk[1], bk[2])
    THEN Raise(st, S3Error(404, "NoSuchKey"))
    ELSE LET bk == CHOOSE x \in CopySources(c) : HasObject(st, x[1], x[2])
         IN  Reply([st EXCEPT ![c.Bucket].objects[c.Key] = st[bk[1]].objects[bk[2]]],
                   [httpStatusCode |-> 200])

Run(st, c) ==
    CASE c.cmd = "HeadBucket"           -> HeadBucketCommand(st, c)
      [] c.cmd = "CreateBucket"         -> CreateBucketCommand(st, c)
      [] c.cmd = "GetObject"            -> GetObjectCommand(st, c)
      [] c.cmd = "HeadObject"           -> HeadObjectCommand(st, c)
      [] c.cmd = "PutObject"            -> PutObjectCommand(st, c)
      [] c.cmd = "GetBucketTagging"     -> GetBucketTaggingCommand(st, c)
      [] c.cmd = "PutBucketTagging"     -> PutBucketTaggingCommand(st, c)
      [] c.cmd = "PutPublicAccessBlock" -> PutPublicAccessBlockCommand(st, c)
      [] c.cmd = "CopyObject"           -> CopyObjectCommand(st, c)

(***************************************************************************)
(* A backend failure.  An operation is run against a fault f: the f.at-th  *)
(* command it sends (counting from 1; 0 for none) is answered with the     *)
(* http status f.status instead of being carried out.                      *)
(***************************************************************************)
NoFault == [at |-> 0, status |-> 0]
FaultStatuses == {503}
\* the faults an operation can meet: one at any command it sends when none fails
FaultsFor(w) == {NoFault} \cup [at : 1..Len(w.log), status : FaultStatuses]

FaultCode(status) == "ServiceUnavailable"

(***************************************************************************)
(* AWSStorage.  Every method is an operator on a world w: the backend      *)
(* (w.s3), the instance (w.cl), the commands sent so far (w.log) and how   *)
(* the last call ended (w.err raised, or w.ret returned).                  *)
(***************************************************************************)
\* new AWSStorage({ bucket, tags, readOnly })
AWSStorage(bucket, tags, readOnly) ==
    [bucket |-> bucket, tags |-> tags, readOnly |-> readOnly,
     initialized |-> FALSE, destroyed |-> FALSE]

World(st, cl) == [s3 |-> st, cl |-> cl, log |-> <<>>, err |-> NoErr, ret |-> <<>>]

Failed(w) == w.err.isErr

\* the world after a command was answered with r
answered(w, c, r) ==
    [w EXCEPT !.s3 = r.s3, !.log = Append(w.log, [command |-> c, err |-> r.err]),
              !.err = r.err, !.ret = r.val]

\* An invocation that runs beside others is suspended at every await of a
\* command and resumed with its reply.  Resumed(replies) runs it again from
\* its start with the replies it got so far: its first Len(replies) commands
\* are answered by them and leave the backend alone, and the command after
\* them, the one it is suspended at, stays unanswered.
Suspended == [S3Error(0, "Suspended") EXCEPT !.name = "Suspended"]
Resumed(replies) == [at |-> 0, status |-> 0, replies |-> replies]
IsResumed(f) == "replies" \in DOMAIN f

resumed(w, c, f) ==
    IF Len(w.log) + 1 <= Len(f.replies)
    THEN answered(w, c, [s3 |-> w.s3, err |-> f.replies[Len(w.log) + 1].err,
                         val |-> f.replies[Len(w.log) + 1].val])
    ELSE answered(w, c, Raise(w.s3, Suspended))

\* this.client.send(command)
send(w, c, f) ==
    IF IsResumed(f) THEN resumed(w, c, f)
    ELSE answered(w, c, IF f.at = Len(w.log) + 1
                        THEN Raise(w.s3, S3Error(f.status, FaultCode(f.status)))
                        ELSE Run(w.s3, c))

return(w, v) == [w EXCEPT !.err = NoErr, !.ret = v]
throw(w, e) == [w EXCEPT !.err = e, !.ret = <<>>]

\* await: an error raised by the awaited call propagates, else the code goes on
Then(w, F(_)) == IF Failed(w) THEN w ELSE F(w)

\* try { ... } catch: H handles the error raised, else the code goes on with F
TryCatch(w, F(_), H(_)) == IF Failed(w) THEN H(w) ELSE F(w)

\* a catch that turns every error into the value v
catchAll(w, v) == return(w, v)

\* catch (e) { if (e.$metadata.httpStatusCode !== 404) throw e; return v; }
catch404(w, v) ==
    IF ~w.err.hasMetadata THEN throw(w, TypeError)
    ELSE IF w.err.httpStatusCode # 404 THEN w
    ELSE return(w, v)

_bucketExists(w, f) ==
    TryCatch(send(w, [cmd |-> "HeadBucket", Bucket |-> w.cl.bucket], f),
             LAMBDA w1 : return(w1, TRUE),
             LAMBDA w1 : catch404(w1, FALSE))

\* a _bucketCreate that creates the bucket before it reads the template's tags
_bucketCreateFirst(w, f) ==
    Then(send(w, [cmd |-> "CreateBucket", Bucket |-> w.cl.bucket], f),
    LAMBDA w1 :
    Then(send(w1, [cmd |-> "GetBucketTagging", Bucket |-> TEMPLATE_BUCKET], f),
    LAMBDA w2 :
    Then(send(w2, [cmd |-> "PutPublicAccessBlock", Bucket |-> w.cl.bucket,
                   BlockAll |-> TRUE], f),
    LAMBDA w3 :
    Then(send(w3, [cmd |-> "PutBucketTagging", Bucket |-> w.cl.bucket,
                   TagSet |-> w2.ret.TagSet \o w.cl.tags], f),
    LAMBDA w4 : return(w4, <<>>)))))

_bucketCreate(w, f) ==
    Then(send(w, [cmd |-> "GetBucketTagging", Bucket |-> TEMPLATE_BUCKET], f),
    LAMBDA w1 :
    Then(send(w1, [cmd |-> "CreateBucket", Bucket |-> w.cl.bucket], f),
    LAMBDA w2 :
    Then(send(w2, [cmd |-> "PutPublicAccessBlock", Bucket |-> w.cl.bucket,
                   BlockAll |-> TRUE], f),
    LAMBDA w3 :
    Then(send(w3, [cmd |-> "PutBucketTagging", Bucket |-> w.cl.bucket,
                   TagSet |-> w1.ret.TagSet \o w.cl.tags], f),
    LAMBDA w4 : return(w4, <<>>)))))

setInitialized(w) == [w EXCEPT !.cl.initialized = TRUE, !.err = NoErr, !.ret = <<>>]

\* an _init that sets the initialized flag whether or not it went through
_initFlaggedFirst(w, f) ==
    IF w.cl.initialized THEN return(w, <<>>)
    ELSE IF w.cl.readOnly THEN setInitialized(w)
    ELSE [Then(_bucketExists(w, f),
          LAMBDA w1 : IF w1.ret THEN setInitialized(w1)
                      ELSE Then(_bucketCreate(w1, f), setInitialized))
            EXCEPT !.cl.initialized = TRUE]

\* an _init that does not look at the initialized flag
_initEveryTime(w, f) ==
    IF w.cl.readOnly THEN setInitialized(w)
    ELSE Then(_bucketExists(w, f),
         LAMBDA w1 : IF w1.ret THEN setInitialized(w1)
                     ELSE Then(_bucketCreate(w1, f), setInitialized))

\* an _init that provisions for a read-only instance too
_initProvisioning(w, f) ==
    IF w.cl.initialized THEN return(w, <<>>)
    ELSE Then(_bucketExists(w, f),
         LAMBDA w1 : IF w1.ret THEN setInitialized(w1)
                     ELSE Then(_bucketCreate(w1, f), setInitialized))

_init(w, f) ==
    IF w.cl.initialized THEN return(w, <<>>)
    ELSE IF w.cl.readOnly THEN setInitialized(w)
    ELSE Then(_bucketExists(w, f),
         LAMBDA w1 : IF w1.ret THEN setInitialized(w1)
                     ELSE Then(_bucketCreate(w1, f), setInitialized))

\* a load that looks at the bytes, not at the content encoding
loadBodySniffing(w) ==
    IF IsGzip(w.ret.Body) THEN return(w, gunzip(w.ret.Body)) ELSE return(w, w.ret.Body)

\* the object returned, with its body gunzipped when it is flagged gzip
loadBody(w) ==
    IF w.ret.ContentEncoding = "gzip"
    THEN (IF IsGzip(w.ret.Body) THEN return(w, gunzip(w.ret.Body))
          ELSE throw(w, Error("incorrect header check", 0)))
    ELSE return(w, w.ret.Body)

NULL == [null |-> TRUE]
Some(v) == [null |-> FALSE, v |-> v]

load(w, key, f) ==
    Then(_init(w, f),
    LAMBDA w0 :
    TryCatch(Then(send(w0, [cmd |-> "GetObject", Bucket |-> w.cl.bucket, Key |-> key], f),
                  loadBody),
             LAMBDA w1 : return(w1, Some(w1.ret)),
             LAMBDA w1 : catch404(w1, NULL)))

metadata(w, key, f) ==
    Then(_init(w, f),
    LAMBDA w0 :
    TryCatch(send(w0, [cmd |-> "HeadObject", Bucket |-> w.cl.bucket, Key |-> key], f),
             LAMBDA w1 : return(w1, Some(w1.ret.Metadata)),
             LAMBDA w1 : catch404(w1, NULL)))

AWS_S3_SYSTEM_HEADERS == {h_cache_control, h_content_type, h_expires}

\* a header map without the entry for last-modified
metadataNameUnmapped(name) == name

\* METADATA_HEADER_MAP.get(name) || name
METADATA_HEADER_MAP(name) ==
    IF name = h_last_modified THEN h_x_source_last_modified ELSE name

\* seg.charAt(0).toUpperCase() + seg.slice(1)
capitalize(seg) ==
    IF seg = <<>> THEN <<>> ELSE <<toUpperCase(seg[1])>> \o Tail(seg)

\* segs.map(capitalize)
RECURSIVE mapCapitalize(_)
mapCapitalize(segs) ==
    IF segs = <<>> THEN <<>> ELSE <<capitalize(Head(segs))>> \o mapCapitalize(Tail(segs))

\* name.split('-').map(capitalize).join('')
propertyName(name) == join(mapCapitalize(split(name, "-")))

\* m with m[k] = v
Put(m, k, v) == [x \in DOMAIN m \cup {k} |-> IF x = k THEN v ELSE m[x]]

\* one round of the forEach over the response headers
storeHeader(input, name, value) ==
    IF name \in AWS_S3_SYSTEM_HEADERS
    THEN [input EXCEPT !.props = Put(input.props, propertyName(name), value)]
    ELSE [input EXCEPT !.Metadata = Put(input.Metadata, METADATA_HEADER_MAP(name), value)]

RECURSIVE storeHeaders(_, _)
storeHeaders(input, ents) ==
    IF ents = <<>> THEN input
    ELSE storeHeaders(storeHeader(input, Head(ents)[1], Head(ents)[2]), Tail(ents))

\* the PutObject input store builds for a response
storeInput(bucket, key, res) ==
    storeHeaders([cmd |-> "PutObject", Body |-> gzip(res.body), Bucket |-> bucket,
                  ContentEncoding |-> "gzip", Metadata |-> <<>>, Key |-> key,
                  props |-> <<>>],
                 entries(res.headers))

readOnlyError(w) == throw(w, Error("Storage is read-only: " \o w.cl.bucket, 0))

\* a store that leaves an object that is already there alone
storeIfAbsent(w, key, res, f) ==
    Then(_init(w, f),
    LAMBDA w0 :
    IF HasObject(w0.s3, w.cl.bucket, key) THEN return(w0, <<>>)
    ELSE Then(send(w0, storeInput(w.cl.bucket, key, res), f),
         LAMBDA w1 : return(w1, <<>>)))

\* a store that refuses to overwrite: an object already under the key makes
\* it fail as a PutObject with if-none-match would
storeOnce(w, key, res, f) ==
    Then(_init(w, f),
    LAMBDA w0 :
    IF HasObject(w0.s3, w.cl.bucket, key)
    THEN throw(w0, S3Error(412, "PreconditionFailed"))
    ELSE Then(send(w0, storeInput(w.cl.bucket, key, res), f),
         LAMBDA w1 : return(w1, <<>>)))

\* store, after its read-only check
storeWrite(w, key, res, f) ==
    Then(_init(w, f),
    LAMBDA w0 :
    Then(send(w0, storeInput(w.cl.bucket, key, res), f),
    LAMBDA w1 : return(w1, <<>>)))

\* a store without the read-only check
storeUnguarded(w, key, res, f) == storeWrite(w, key, res, f)

store(w, key, res, f) ==
    IF w.cl.readOnly THEN readOnlyError(w) ELSE storeWrite(w, key, res, f)

\* a catch that rethrows what it caught
copyRethrow(w, src) == w

\* catch (e) { if (e.Code !== 'NoSuchKey') throw e; ... e2.status = 404; throw e2; }
copyCatch(w, src) ==
    IF w.err.Code # "NoSuchKey" THEN w
    ELSE throw(w, Error("source does not exist: " \o src, 404))

\* a copy with source and destination exchanged
copySwapped(w, src, dest, f) ==
    Then(_init(w, f),
    LAMBDA w0 :
    TryCatch(send(w0, [cmd |-> "CopyObject", Bucket |-> w.cl.bucket,
                       CopySource |-> w.cl.bucket \o "/" \o dest, Key |-> src], f),
             LAMBDA w1 : return(w1, <<>>),
             LAMBDA w1 : copyCatch(w1, src)))

\* copy, after its read-only check
copyWrite(w, src, dest, f) ==
    Then(_init(w, f),
    LAMBDA w0 :
    TryCatch(send(w0, [cmd |-> "CopyObject", Bucket |-> w.cl.bucket,
                       CopySource |-> w.cl.bucket \o "/" \o src, Key |-> dest], f),
             LAMBDA w1 : return(w1, <<>>),
             LAMBDA w1 : copyCatch(w1, src)))

\* a copy that moves: the source is gone once the destination holds it
copyMove(w, src, dest, f) ==
    IF w.cl.readOnly THEN readOnlyError(w)
    ELSE Then(copyWrite(w, src, dest, f),
         LAMBDA w1 : IF src = dest THEN w1
                     ELSE [w1 EXCEPT !.s3[w.cl.bucket].objects[src] = NoObject])

copy(w, src, dest, f) ==
    IF w.cl.readOnly THEN readOnlyError(w) ELSE copyWrite(w, src, dest, f)

close(w) == [w EXCEPT !.cl.destroyed = TRUE, !.err = NoErr, !.ret = <<>>]

(***************************************************************************)
(* The state machine of the storage client: two instances on the content   *)
(* bucket, one read-write and one read-only, called in any order, each     *)
(* call against any backend fault.                                         *)
(***************************************************************************)
RW == "rw"
RO == "ro"
ClientIds == {RW, RO}

ContentKeys == {p \o q : p \in Prefixes, q \in Paths}

TemplateTags == <<[Key |-> "customer", Value |-> "helix"]>>
MountTags    == <<[Key |-> "mountpoint", Value |-> "https://drive/x"]>>

NewClient(c) ==
    IF c = RO THEN AWSStorage(ContentBucket, <<>>, TRUE)
    ELSE AWSStorage(ContentBucket, MountTags, FALSE)

Response(status, headers, body) == [status |-> status, headers |-> headers, body |-> body]

NoHeaders == <<>>
\* h with name -> value added
With(h, name, value) == Put(h, name, value)

\* an object put into a bucket by other means, without a content encoding
PlainObject ==
    [exists |-> TRUE, Body |-> <<1>>, ContentEncoding |-> "",
     Metadata |-> With(NoHeaders, h_last_modified, "lm0"), sys |-> <<>>]

Responses ==
    { Response(200, With(With(NoHeaders, h_last_modified, "lm1"),
                         h_x_source_location, "loc1"), <<0, 0>>),
      Response(200, With(With(NoHeaders, h_content_type, "text/plain"),
                         h_last_modified, "lm2"), <<0, 1>>) }

\* the backend at the start: the template bucket exists or not, the content
\* bucket is missing, empty, or holds an object
InitialBackends ==
    { [b \in Buckets |->
         CASE b = TEMPLATE_BUCKET ->
                  IF t THEN [EmptyBucket EXCEPT !.tags = TemplateTags] ELSE NoBucket
           [] b = CODE_BUCKET -> EmptyBucket
           [] b = OtherBucket ->
                  [EmptyBucket EXCEPT !.objects["live/mnt/a"] = PlainObject]
           [] b = ContentBucket -> cb ]
      : t \in BOOLEAN,
        cb \in { NoBucket, EmptyBucket,
                 [EmptyBucket EXCEPT !.objects["preview/mnt/a"] = PlainObject] } }

NoResult ==
    [op |-> "none", client |-> "", key |-> "", dest |-> "", res |-> <<>>,
     err |-> NoErr, ret |-> <<>>, faulted |-> FALSE,
     before |-> NoObject, source |-> NoObject]

Fresh ==
    /\ clients = [c \in ClientIds |-> NewClient(c)]
    /\ calls = <<>>
    /\ result = NoResult
    /\ created = [c \in ClientIds |-> 0]

Init ==
    /\ s3 \in InitialBackends
    /\ Fresh

\* the object under key k of bucket b, NoObject when there is none
ObjectAt(st, b, k) == IF HasObject(st, b, k) THEN st[b].objects[k] ELSE NoObject

\* the number of CreateBucket commands in a log that went through
RECURSIVE Creations(_)
Creations(log) ==
    IF log = <<>> THEN 0
    ELSE Creations(Tail(log))
         + (IF Head(log).command.cmd = "CreateBucket" /\ ~Head(log).err.isErr THEN 1 ELSE 0)

\* the last operation is recorded with the object its target key held before
\* (key for store, dest for copy) and, for copy, the object its source key held
Finish(c, w, f, op, key, dest, res) ==
    /\ s3' = w.s3
    /\ clients' = [clients EXCEPT ![c] = w.cl]
    /\ calls' = w.log
    /\ result' = [op |-> op, client |-> c, key |-> key, dest |-> dest, res |-> res,
                  err |-> w.err, ret |-> w.ret, faulted |-> f # NoFault,
                  before |-> IF op = "store" THEN ObjectAt(s3, w.cl.bucket, key)
                             ELSE IF op = "copy" THEN ObjectAt(s3, w.cl.bucket, dest)
                             ELSE NoObject,
                  source |-> IF op = "copy" THEN ObjectAt(s3, w.cl.bucket, key)
                             ELSE NoObject]
    /\ created' = [created EXCEPT ![c] = IF op = "new" THEN 0 ELSE @ + Creations(w.log)]

\* the world in which client c makes its next call
Now(c) == World(s3, clients[c])

Load(c) ==
    \E key \in ContentKeys :
    \E f \in FaultsFor(load(Now(c), key, NoFault)) :
        /\ ~clients[c].destroyed
        /\ Finish(c, load(Now(c), key, f), f, "load", key, "", <<>>)

Metadata(c) ==
    \E key \in ContentKeys :
    \E f \in FaultsFor(metadata(Now(c), key, NoFault)) :
        /\ ~clients[c].destroyed
        /\ Finish(c, metadata(Now(c), key, f), f, "metadata", key, "", <<>>)

StoreOf(c, keys, responses) ==
    \E key \in keys, res \in responses :
    \E f \in FaultsFor(store(Now(c), key, res, NoFault)) :
        /\ ~clients[c].destroyed
        /\ Finish(c, store(Now(c), key, res, f), f, "store", key, "", res)

Store(c) == StoreOf(c, ContentKeys, Responses)

Copy(c) ==
    \E src \in ContentKeys, dest \in ContentKeys :
    \E f \in FaultsFor(copy(Now(c), src, dest, NoFault)) :
        /\ ~clients[c].destroyed
        /\ Finish(c, copy(Now(c), src, dest, f), f, "copy", src, dest, <<>>)

Close(c) ==
    /\ ~clients[c].destroyed
    /\ Finish(c, close(World(s3, clients[c])), NoFault, "close", "", "", <<>>)

\* a closed instance is replaced by a new one
New(c) ==
    /\ clients[c].destroyed
    /\ Finish(c, World(s3, NewClient(c)), NoFault, "new", "", "", <<>>)

Next ==
    \E c \in ClientIds :
        \/ Load(c)
        \/ Metadata(c)
        \/ Store(c)
        \/ Copy(c)
        \/ Close(c)
        \/ New(c)

Spec == Init /\ [][Next]_vars

(***************************************************************************)
(* The state machine of store and load over every body up to MaxLen: one   *)
(* read-write client, the content bucket present or still to be created.   *)
(***************************************************************************)
BodyResponses ==
    {Response(200, With(NoHeaders, h_content_type, "text/plain"), b) : b \in Bodies}

InitRT ==
    /\ s3 \in {st \in InitialBackends :
                  /\ st[TEMPLATE_BUCKET].exists
                  /\ \A k \in Keys : ~HasObject(st, ContentBucket, k)}
    /\ Fresh

StoreBody(c) == StoreOf(c, {"live/mnt/a"}, BodyResponses)

NextRT ==
    \/ StoreBody(RW)
    \/ Load(RW)

SpecRT == InitRT /\ [][NextRT]_vars

(***************************************************************************)
(* The state machine of a first store under a key and of metadata, over    *)
(* responses with every set of headers: one read-write client on an        *)
(* existing content bucket.                                                *)
(***************************************************************************)
HeaderNames ==
    {h_cache_control, h_content_type, h_expires, h_last_modified,
     h_x_source_last_modified, h_x_source_location}

\* a value for each header, no two alike
HeaderValue(name) ==
    CASE name = h_cache_control -> "max-age=60"
      [] name = h_content_type -> "text/plain"
      [] name = h_expires -> "Thu, 01 Jan 2022 00:00:00 GMT"
      [] name = h_last_modified -> "Fri, 07 May 2021 18:03:19 GMT"
      [] name = h_x_source_last_modified -> "Tue, 20 Apr 2021 23:51:03 GMT"
      [] name = h_x_source_location -> "/drive/a"

HeaderResponses ==
    {Response(200, [n \in names |-> HeaderValue(n)], <<1>>) : names \in SUBSET HeaderNames}

InitHdr ==
    /\ s3 \in {st \in InitialBackends :
                  /\ st[TEMPLATE_BUCKET].exists
                  /\ st[ContentBucket].exists
                  /\ \A k \in Keys : ~HasObject(st, ContentBucket, k)}
    /\ Fresh

\* a store under a key that holds no object yet
StoreHeaders(c) ==
    StoreOf(c, {k \in {"live/mnt/a"} : ~HasObject(s3, ContentBucket, k)}, HeaderResponses)

NextHdr ==
    \/ StoreHeaders(RW)
    \/ Metadata(RW)

SpecHdr == InitHdr /\ [][NextHdr]_vars

(***************************************************************************)
(* The handler.  main runs in a world that, besides the backend and the    *)
(* commands sent, keeps the code-bus instance once main is done with it    *)
(* (w.code), the requests sent upstream (w.fetches) and the instance       *)
(* currently in use (w.cl).                                                *)
(***************************************************************************)
undefined == "<undefined>"
null == "<null>"

JsUndefined == [type |-> "undefined"]
JsString(v) == [type |-> "string", v |-> v]
JsBoolean(v) == [type |-> "boolean", v |-> v]

\* value ? ... : ...
truthy(value) ==
    CASE value.type = "undefined" -> FALSE
      [] value.type = "string" -> value.v # ""
      [] value.type = "boolean" -> value.v

parseBoolean(value, defaultValue) ==
    IF \/ (value.type = "string" /\ value.v = "false")
       \/ (value.type = "boolean" /\ value.v = FALSE)
    THEN FALSE
    ELSE IF truthy(value) THEN TRUE ELSE defaultValue

\* a body that is a text
Text(t) == <<t>>

NoClient == [constructed |-> FALSE]

Invocation(st) ==
    [s3 |-> st, cl |-> NoClient, log |-> <<>>, err |-> NoErr, ret |-> <<>>,
     code |-> NoClient, fetches |-> <<>>, closes |-> <<>>]

\* errors raised by fetch
AbortError == [Error("The operation was aborted.", 0) EXCEPT !.name = "AbortError"]
FetchError(code) ==
    [Error("request failed: " \o code, 0) EXCEPT !.name = "FetchError", !.Code = code]

\* the mount table of the repository's fstab.yaml, and its source in the code bus
MountTable == <<[path |-> "/mnt", url |-> "https://drive/x"]>>
FstabObject ==
    [exists |-> TRUE, Body |-> MountTable, ContentEncoding |-> "",
     Metadata |-> <<>>, sys |-> <<>>]

\* the rest of a path below a mount point
Rests == {"", "/a", "/b"}

\* fstab.match(path): the first mount point the path lies under, or null
RECURSIVE match(_, _)
match(fstab, path) ==
    IF fstab = <<>> THEN NULL
    ELSE IF \E rest \in Rests : path = Head(fstab).path \o rest THEN Head(fstab)
    ELSE match(Tail(fstab), path)

\* crypto.createHash('sha256').update(url).digest('hex'), for the mount urls
\* of the model
sha256(url) ==
    CASE url = "https://drive/x" -> "5105f95407be955576a1a5b659cdecafc82ebe2405a07247a53414fd992bdb35"
      [] url = "https://drive/y" -> "ee97c1566a90787e3d1a38ba1a130cf17c3169320d7ad10b207a81d3dc0fa169"

\* s.substr(from, length)
substr(s, from, length) ==
    SubSeq(s, from + 1, IF from + length <= Len(s) THEN from + length ELSE Len(s))

\* a bucket named by the whole digest
bucketOfDigest(url) == "h3" \o sha256(url)

\* `h3${sha256.substr(0, 59)}`
bucketOf(url) == "h3" \o substr(sha256(url), 0, 59)

\* an ok that takes every status below 400 for a success
okBelow400(status) == status >= 200 /\ status <= 399

\* res.ok
ok(status) == status >= 200 /\ status <= 299

\* utils.propagateStatusCode
propagateStatusCode(status) ==
    CASE status = 304 -> 304
      [] status = 404 -> 404
      [] OTHER -> 502

\* s.charAt(i - 1)
charAt(s, i) == SubSeq(s, i, i)

\* options[key]: undefined for a key the object has not
own(options, key) == IF key \in DOMAIN options THEN options[key] ELSE undefined

\* if (value), for a value that is a string, undefined or null
nonEmpty(value) == value \notin {undefined, null, ""}

\* timeoutSignal(ms)
timeoutSignal(ms) == [timeout |-> ms]

\* the characters of the class [A-Z0-9_]
SecretCharacters ==
    {Upper[i] : i \in 1..26} \cup {"0","1","2","3","4","5","6","7","8","9","_"}

\* key.match(/^[A-Z0-9_]+$/)
isSecret(key) ==
    Len(key) > 0 /\ \A i \in 1..Len(key) : charAt(key, i) \in SecretCharacters

\* { headers: {}, ...options }
spread(options) ==
    [k \in DOMAIN options \cup {"headers"} |->
        IF k \in DOMAIN options THEN options[k] ELSE <<>>]

\* the headers of the fetch options: x-request-id, if-modified-since and
\* x-github-token are set over what options.headers brings
fetchHeaders(options) ==
    [n \in DOMAIN spread(options).headers
           \cup (IF nonEmpty(own(options, "requestId")) THEN {"x-request-id"} ELSE {})
           \cup (IF nonEmpty(own(options, "lastModified"))
                 THEN {"if-modified-since"} ELSE {})
           \cup (IF nonEmpty(own(options, "token")) THEN {"x-github-token"} ELSE {})
       |-> CASE n = "x-request-id" /\ nonEmpty(own(options, "requestId"))
                    -> options.requestId
             [] n = "if-modified-since" /\ nonEmpty(own(options, "lastModified"))
                    -> options.lastModified
             [] n = "x-github-token" /\ nonEmpty(own(options, "token"))
                    -> options.token
             [] OTHER -> spread(options).headers[n]]

\* the fetch options before requestId, token and the secrets are deleted
fetchopts(options) ==
    [k \in DOMAIN spread(options)
           \cup (IF "fetchTimeout" \in DOMAIN options /\ options.fetchTimeout # 0
                 THEN {"signal"} ELSE {})
       |-> CASE k = "headers" -> fetchHeaders(options)
             [] k = "signal" /\ "fetchTimeout" \in DOMAIN options
                             /\ options.fetchTimeout # 0
                    -> timeoutSignal(options.fetchTimeout)
             [] OTHER -> options[k]]

\* a getFetchOptions that deletes requestId and token and keeps the secrets
getFetchOptionsWithSecrets(options) ==
    [k \in DOMAIN fetchopts(options) \ {"requestId", "token"} |-> fetchopts(options)[k]]

\* getFetchOptions(options): the options of the request sent upstream
getFetchOptions(options) ==
    [k \in {x \in DOMAIN fetchopts(options) \ {"requestId", "token"} : ~isSecret(x)}
       |-> fetchopts(options)[k]]

PASSTHROUGH_HEADERS ==
    {h_content_type, h_access_control_allow_origin, h_access_control_allow_methods,
     h_access_control_allow_headers, h_cache_control, h_last_modified,
     h_surrogate_control, h_surrogate_key, h_vary, h_x_source_location}

\* resp.headers.get(name)
get(headers, name) == IF name \in DOMAIN headers THEN headers[name] ELSE null

\* a contentProxy that hands on every header of the upstream response
passthroughAll(headers) == headers

\* the headers contentProxy keeps of a successful upstream response
passthrough(headers) ==
    [n \in {m \in PASSTHROUGH_HEADERS : get(headers, m) \notin {null, ""}} |-> headers[n]]

\* a contentProxy that keeps the passthrough headers of a failure too
proxiedKeeping(up) ==
    IF ok(up.status)
    THEN Response(200, passthrough(up.headers), up.body)
    ELSE Response(propagateStatusCode(up.status),
                  With(With(With(passthrough(up.headers),
                                 h_x_error, get(up.headers, h_x_error)),
                            h_vary, get(up.headers, h_vary)),
                       h_cache_control, "max-age=60"),
                  up.body)

\* the response contentProxy makes of the upstream response up
proxied(up) ==
    IF ok(up.status)
    THEN Response(200, passthrough(up.headers), up.body)
    ELSE Response(propagateStatusCode(up.status),
                  With(With(With(NoHeaders, h_x_error, get(up.headers, h_x_error)),
                            h_vary, get(up.headers, h_vary)),
                       h_cache_control, "max-age=60"),
                  up.body)

\* contentProxy(opts): one request upstream, answered by up
contentProxy(w, req, options, up) ==
    IF up.kind = "response"
    THEN return([w EXCEPT !.fetches =
                    Append(@, [owner |-> req.owner, repo |-> req.repo, ref |-> req.ref,
                               path |-> req.path, rid |-> options.requestId,
                               options |-> getFetchOptions(options)])],
                proxied(up))
    ELSE throw([w EXCEPT !.fetches =
                    Append(@, [owner |-> req.owner, repo |-> req.repo, ref |-> req.ref,
                               path |-> req.path, rid |-> options.requestId,
                               options |-> getFetchOptions(options)])],
               up.error)

\* unknown(e, log)
unknown(e) ==
    Response(IF e.status # 0 THEN e.status ELSE 500, NoHeaders,
             Text(IF e.message # "" THEN e.message ELSE "no message"))

\* a catch without the two tests for transient network errors
mainCatchUnknown(w) == return(w, unknown(w.err))

\* the catch of main: what becomes of an error raised in its second try
mainCatch(w) ==
    IF w.err.name = "AbortError" THEN return(w, Response(504, NoHeaders, Text(w.err.message)))
    ELSE IF w.err.name = "FetchError" /\ w.err.Code = "ECONNRESET"
    THEN return(w, Response(504, NoHeaders, Text(w.err.message)))
    ELSE return(w, unknown(w.err))

\* a finally that leaves the client open
finallyLeaveOpen(w) == w

\* finally { if (storage) storage.close(); }: the outcome of the try stays
finallyClose(w) ==
    [w EXCEPT !.cl.destroyed = TRUE,
              !.closes = Append(@, [bucket |-> w.cl.bucket, at |-> Len(w.log)])]

\* options.lastModified = metadata['last-modified']
lastModifiedOf(md) ==
    IF md.null THEN undefined
    ELSE IF h_last_modified \in DOMAIN md.v THEN md.v[h_last_modified] ELSE undefined

\* a main that stores whatever contentProxy returns
mainFetchStoreAll(w, req, key, options, up, f) ==
    Then(contentProxy(w, req, options, up),
    LAMBDA w1 :
    Then(store(w1, key, w1.ret, f),
    LAMBDA w2 : return(w2, Response(200, NoHeaders, <<>>))))

\* main, from the fetch on: options.lastModified is lm
mainFetch(w, req, key, options, up, f) ==
    Then(contentProxy(w, req, options, up),
    LAMBDA w1 :
    IF ~ok(w1.ret.status) THEN w1
    ELSE Then(store(w1, key, w1.ret, f),
         LAMBDA w2 : return(w2, Response(200, NoHeaders, <<>>))))

\* a second try block that takes no prefix from the request
mainContentLive(w, req, mp, options, up, f) ==
    IF parseBoolean(req.useLastModified, FALSE)
    THEN Then(metadata(w, "live" \o req.path, f),
         LAMBDA w1 :
         mainFetch(w1, req, "live" \o req.path,
                   [options EXCEPT !.lastModified = lastModifiedOf(w1.ret)], up, f))
    ELSE mainFetch(w, req, "live" \o req.path, options, up, f)

\* main, second try block, for the mount point mp
mainContent(w, req, mp, options, up, f) ==
    IF parseBoolean(req.useLastModified, FALSE)
    THEN Then(metadata(w, (IF req.prefix = undefined THEN "live" ELSE req.prefix) \o req.path, f),
         LAMBDA w1 :
         mainFetch(w1, req, (IF req.prefix = undefined THEN "live" ELSE req.prefix) \o req.path,
                   [options EXCEPT !.lastModified = lastModifiedOf(w1.ret)], up, f))
    ELSE mainFetch(w, req, (IF req.prefix = undefined THEN "live" ELSE req.prefix) \o req.path,
                   options, up, f)

\* a main that does not test whether a mount point matched: reading the url
\* of no mount point raises a TypeError in the second try block
mainMountedUnchecked(w, req, up, f) ==
    IF w.ret.null
    THEN return(w, Response(400,
                   With(NoHeaders, h_x_error,
                        fstabKey(req.owner, req.repo, req.ref)
                          \o " not found in bucket 'helix-code-bus'"),
                   <<>>))
    ELSE IF match(w.ret.v, req.path) = NULL
    THEN return(w, unknown(TypeError))
    ELSE finallyClose(
           TryCatch(
             mainContent([w EXCEPT !.code = w.cl,
                                   !.cl = AWSStorage(bucketOf(match(w.ret.v, req.path).url),
                                            <<[Key |-> "mountpoint",
                                               Value |-> match(w.ret.v, req.path).url]>>,
                                            FALSE)],
                         req, match(w.ret.v, req.path),
                         [cache |-> "no-store", fetchTimeout |-> 20000,
                          requestId |-> req.requestId, token |-> req.token,
                          lastModified |-> undefined],
                         up, f),
             LAMBDA w1 : w1,
             mainCatch))

\* main, once the mount table is loaded into w.ret and the code storage closed
mainMounted(w, req, up, f) ==
    IF w.ret.null
    THEN return(w, Response(400,
                   With(NoHeaders, h_x_error,
                        fstabKey(req.owner, req.repo, req.ref)
                          \o " not found in bucket 'helix-code-bus'"),
                   <<>>))
    ELSE IF match(w.ret.v, req.path) = NULL
    THEN return(w, Response(400,
                   With(NoHeaders, h_x_error,
                        "path specified is not mounted in fstab.yaml: " \o req.path),
                   <<>>))
    ELSE finallyClose(
           TryCatch(
             mainContent([w EXCEPT !.code = w.cl,
                                   !.cl = AWSStorage(bucketOf(match(w.ret.v, req.path).url),
                                            <<[Key |-> "mountpoint",
                                               Value |-> match(w.ret.v, req.path).url]>>,
                                            FALSE)],
                         req, match(w.ret.v, req.path),
                         [cache |-> "no-store", fetchTimeout |-> 20000,
                          requestId |-> req.requestId, token |-> req.token,
                          lastModified |-> undefined],
                         up, f),
             LAMBDA w1 : w1,
             mainCatch))

\* a main that does not validate its parameters
mainUnvalidated(st, req, up, f) ==
    Then(finallyClose(load([Invocation(st) EXCEPT
                               !.cl = AWSStorage(CODE_BUCKET, <<>>, TRUE)],
                           fstabKey(req.owner, req.repo, req.ref), f)),
    LAMBDA w : mainMounted(w, req, up, f))

\* main(req, context): the outcome is the response returned (w.ret) or the
\* error raised (w.err)
main(st, req, up, f) ==
    IF ~(req.owner # "" /\ req.repo # "" /\ req.ref # "" /\ req.path # "")
    THEN return(Invocation(st),
                Response(400, NoHeaders,
                         Text("owner, repo, ref, and path parameters are required")))
    ELSE Then(finallyClose(load([Invocation(st) EXCEPT
                                    !.cl = AWSStorage(CODE_BUCKET, <<>>, TRUE)],
                                fstabKey(req.owner, req.repo, req.ref), f)),
         LAMBDA w : mainMounted(w, req, up, f))

(***************************************************************************)
(* The state machine of the handler: invocations one after the other, each *)
(* with a request, an answer of the upstream service and possibly a        *)
(* backend fault.                                                          *)
(***************************************************************************)
Request(path, prefix, useLastModified) ==
    [owner |-> "o", repo |-> "r", ref |-> "main", path |-> path, prefix |-> prefix,
     useCDN |-> JsUndefined, useLastModified |-> useLastModified,
     requestId |-> "rid-1", token |-> undefined]

MountedRequests ==
    {Request("/mnt/a", prefix, ulm) :
        prefix \in {undefined, "preview"}, ulm \in {JsUndefined, JsString("true")}}

OtherRequests ==
    {[Request("/mnt/a", undefined, JsUndefined) EXCEPT ![x] = ""] :
        x \in {"owner", "repo", "ref", "path"}}
    \cup {Request("/other/b", undefined, JsUndefined)}

Upstream(status, headers, body) ==
    [kind |-> "response", status |-> status, headers |-> headers, body |-> body]

Raised(e) == [kind |-> "error", error |-> e]

UpstreamDocuments ==
    { Upstream(200, With(With(With(NoHeaders, h_content_type, "text/html"),
                              h_last_modified, "lm1"), h_x_error, "none"), <<0, 1>>),
      Upstream(200, With(With(NoHeaders, h_x_source_location, "loc1"),
                         h_cache_control, ""), <<1>>),
      Upstream(200, With(NoHeaders, h_content_type, "text/html"), <<>>) }

UpstreamFailures ==
    { Upstream(304, NoHeaders, <<>>),
      Upstream(404, With(NoHeaders, h_x_error, "not found"), <<0>>),
      Raised(AbortError), Raised(FetchError("ECONNRESET")), Raised(FetchError("ENOTFOUND")) }

Upstreams == UpstreamDocuments \cup UpstreamFailures

InitialMainBackends ==
    { [b \in Buckets |->
         CASE b = TEMPLATE_BUCKET -> [EmptyBucket EXCEPT !.tags = TemplateTags]
           [] b = CODE_BUCKET ->
                  IF fs THEN [EmptyBucket EXCEPT !.objects[FstabKey] = FstabObject]
                  ELSE EmptyBucket
           [] b = OtherBucket -> EmptyBucket
           [] b = ContentBucket -> cb ]
      : fs \in BOOLEAN,
        cb \in { NoBucket,
                 [EmptyBucket EXCEPT !.objects["live/mnt/a"] = PlainObject] } }

InitMain ==
    /\ s3 \in InitialMainBackends
    /\ Fresh

Stores(log) == {i \in DOMAIN log : log[i].command.cmd = "PutObject"}

FinishMain(w, req, up, f) ==
    /\ s3' = w.s3
    /\ clients' = [c \in ClientIds |-> IF c = RO THEN (IF w.code = NoClient THEN w.cl ELSE w.code)
                                       ELSE (IF w.code = NoClient THEN NoClient ELSE w.cl)]
    /\ calls' = w.log
    /\ result' = [op |-> "main", client |-> RW,
                  key |-> (IF req.prefix = undefined THEN "live" ELSE req.prefix) \o req.path,
                  dest |-> "", res |-> up, err |-> w.err, ret |-> w.ret,
                  faulted |-> f # NoFault,
                  before |-> ObjectAt(s3, ContentBucket,
                                (IF req.prefix = undefined THEN "live" ELSE req.prefix)
                                   \o req.path),
                  source |-> NoObject, req |-> req, fetches |-> w.fetches,
                  closes |-> w.closes]
    /\ created' = [created EXCEPT ![RW] = Creations(w.log)]

\* an invocation for a mounted path that meets no backend fault
Update ==
    \E req \in MountedRequests, up \in Upstreams :
        FinishMain(main(s3, req, up, NoFault), req, up, NoFault)

\* an invocation that meets a backend fault
UpdateFaulted ==
    \E req \in {Request("/mnt/a", undefined, ulm) : ulm \in {JsUndefined, JsString("true")}},
       up \in {u \in Upstreams : u.kind = "response" /\ u.body # <<>>} :
    \E f \in FaultsFor(main(s3, req, up, NoFault)) \ {NoFault} :
        FinishMain(main(s3, req, up, f), req, up, f)

\* an invocation that ends before the fetch
Rejected ==
    \E req \in OtherRequests :
        FinishMain(main(s3, req, Upstream(404, NoHeaders, <<>>), NoFault),
                   req, Upstream(404, NoHeaders, <<>>), NoFault)

NextMain ==
    \/ Update
    \/ UpdateFaulted
    \/ Rejected

SpecMain == InitMain /\ [][NextMain]_vars

(***************************************************************************)
(* The handler with actions.  The revision of main that dispatches on the  *)
(* action of the request is known by its tests and its description only:   *)
(* after the mount point is resolved, 'update' (the default) is the second *)
(* try block of main, 'publish' copies preview/<path> to live/<path>, and   *)
(* any other action is a bad request.                                      *)
(***************************************************************************)
\* req with an action
WithAction(req, action) ==
    [x \in DOMAIN req \cup {"action"} |-> IF x = "action" THEN action ELSE req[x]]

\* action 'publish'
publish(w, req, f) ==
    Then(copy(w, "preview" \o req.path, "live" \o req.path, f),
    LAMBDA w1 : return(w1, Response(200, NoHeaders, <<>>)))

\* a dispatch that takes every action but 'publish' for 'update'
dispatchUpdateByDefault(w, req, mp, options, up, f) ==
    IF req.action = "publish" THEN publish(w, req, f)
    ELSE mainContent(w, req, mp, options, up, f)

dispatch(w, req, mp, options, up, f) ==
    IF req.action \in {undefined, "update"} THEN mainContent(w, req, mp, options, up, f)
    ELSE IF req.action = "publish" THEN publish(w, req, f)
    ELSE return(w, Response(400, NoHeaders, Text("unknown action: " \o req.action)))

\* main with actions, once the mount table is loaded into w.ret
mainMountedWithAction(w, req, up, f) ==
    IF w.ret.null \/ match(w.ret.v, req.path) = NULL THEN mainMounted(w, req, up, f)
    ELSE finallyClose(
           TryCatch(
             dispatch([w EXCEPT !.code = w.cl,
                                !.cl = AWSStorage(bucketOf(match(w.ret.v, req.path).url),
                                         <<[Key |-> "mountpoint",
                                            Value |-> match(w.ret.v, req.path).url]>>,
                                         FALSE)],
                      req, match(w.ret.v, req.path),
                      [cache |-> "no-store", fetchTimeout |-> 20000,
                       requestId |-> req.requestId, token |-> req.token,
                       lastModified |-> undefined],
                      up, f),
             LAMBDA w1 : w1,
             mainCatch))

\* main with actions
mainWithAction(st, req, up, f) ==
    IF ~(req.owner # "" /\ req.repo # "" /\ req.ref # "" /\ req.path # "")
    THEN main(st, req, up, f)
    ELSE Then(finallyClose(load([Invocation(st) EXCEPT
                                    !.cl = AWSStorage(CODE_BUCKET, <<>>, TRUE)],
                                fstabKey(req.owner, req.repo, req.ref), f)),
         LAMBDA w : mainMountedWithAction(w, req, up, f))

(***************************************************************************)
(* The state machine of the handler with actions: updates into live and    *)
(* preview, publishes with and without backend faults, unknown actions.    *)
(***************************************************************************)
InitialActionBackends ==
    { [st EXCEPT ![ContentBucket] = cb] :
        st \in {x \in InitialMainBackends : HasObject(x, CODE_BUCKET, FstabKey)},
        cb \in { NoBucket, EmptyBucket,
                 [EmptyBucket EXCEPT !.objects["preview/mnt/a"] = PlainObject] } }

InitAction ==
    /\ s3 \in InitialActionBackends
    /\ Fresh

NoUpstream == Upstream(404, NoHeaders, <<>>)

UpdateAction ==
    \E prefix \in {undefined, "preview"}, action \in {undefined, "update"},
       up \in UpstreamDocuments :
        FinishMain(mainWithAction(s3, WithAction(Request("/mnt/a", prefix, JsUndefined), action),
                                  up, NoFault),
                   WithAction(Request("/mnt/a", prefix, JsUndefined), action), up, NoFault)

Publish ==
    \E f \in FaultsFor(mainWithAction(s3, WithAction(Request("/mnt/a", undefined, JsUndefined),
                                                     "publish"),
                                      NoUpstream, NoFault)) :
        FinishMain(mainWithAction(s3, WithAction(Request("/mnt/a", undefined, JsUndefined),
                                                 "publish"),
                                  NoUpstream, f),
                   WithAction(Request("/mnt/a", undefined, JsUndefined), "publish"),
                   NoUpstream, f)

UnknownAction ==
    \E path \in {"/mnt/a", "/other/b"}, action \in {"energize", ""} :
        FinishMain(mainWithAction(s3, WithAction(Request(path, undefined, JsUndefined), action),
                                  NoUpstream, NoFault),
                   WithAction(Request(path, undefined, JsUndefined), action),
                   NoUpstream, NoFault)

NextAction ==
    \/ UpdateAction
    \/ Publish
    \/ UnknownAction

SpecAction == InitAction /\ [][NextAction]_vars

(***************************************************************************)
(* Invocations side by side.  Each invocation of main has its own clients; *)
(* what the invocations share is the backend.  An invocation is suspended  *)
(* at every command it sends, and a step of the machine is the backend     *)
(* answering the command one invocation is suspended at; what main does    *)
(* between two commands, the request upstream included, belongs to the     *)
(* step that resumes it.                                                   *)
(***************************************************************************)
Invocations == {1, 2}

Idle == [state |-> "idle"]

\* main, resumed with the replies the invocation v got so far
resume(st, v) == main(st, v.req, v.up, Resumed(v.replies))

\* the invocation v once main, resumed, came to w: v is over when main sent
\* no command beyond the replies it has
Resume(v, w) ==
    IF Len(w.log) = Len(v.replies)
    THEN [v EXCEPT !.state = "done", !.err = w.err, !.ret = w.ret, !.cl = w.cl,
                   !.closes = w.closes, !.fetches = w.fetches]
    ELSE [v EXCEPT !.pending = w.log[Len(v.replies) + 1].command]

ConcurrentBackends ==
    { [b \in Buckets |->
         CASE b = TEMPLATE_BUCKET -> [EmptyBucket EXCEPT !.tags = TemplateTags]
           [] b = CODE_BUCKET -> [EmptyBucket EXCEPT !.objects[FstabKey] = FstabObject]
           [] b = OtherBucket -> EmptyBucket
           [] b = ContentBucket -> cb ]
      : cb \in { NoBucket, EmptyBucket } }

InitConcurrent ==
    /\ s3 \in ConcurrentBackends
    /\ clients = [i \in Invocations |-> NoClient]
    /\ calls = <<>>
    /\ result = [op |-> "concurrent", err |-> NoErr, inv |-> [i \in Invocations |-> Idle]]
    /\ created = [i \in Invocations |-> 0]

NoCommand == [cmd |-> "none"]

ConcurrentRequests ==
    {Request("/mnt/a", undefined, JsUndefined), Request("/mnt/a", "preview", JsUndefined),
     Request("/mnt/a", undefined, JsString("true"))}
ConcurrentDocuments == {u \in UpstreamDocuments : u.body # <<>>}

\* a request arrives: main runs up to the first command it sends
Invoke(i) ==
    \E req \in ConcurrentRequests, up \in ConcurrentDocuments :
    \E v \in {[state |-> "running", req |-> req, up |-> up, replies |-> <<>>,
                pending |-> NoCommand, err |-> NoErr, ret |-> <<>>, cl |-> NoClient,
                closes |-> <<>>, fetches |-> <<>>,
                missing |-> ~HasBucket(s3, ContentBucket)]} :
    \E w \in {resume(s3, v)} :
        /\ result.inv[i].state = "idle"
        /\ result' = [result EXCEPT !.inv[i] = Resume(v, w)]
        /\ UNCHANGED <<s3, clients, calls, created>>

\* the backend answers the command invocation i is suspended at, and main
\* runs on to its next command or to its end
Answer(i) ==
    /\ result.inv[i].state = "running"
    /\ \E r \in {Run(s3, result.inv[i].pending)} :
       \E v \in {[result.inv[i] EXCEPT !.replies = Append(@, [err |-> r.err, val |-> r.val]),
                                       !.pending = NoCommand]} :
       \E w \in {resume(r.s3, v)} :
           /\ s3' = r.s3
           /\ calls' = Append(calls, [command |-> result.inv[i].pending, err |-> r.err,
                                      by |-> i])
           /\ result' = [result EXCEPT !.inv[i] = Resume(v, w)]
           /\ clients' = [clients EXCEPT ![i] = Resume(v, w).cl]
           /\ created' = [created EXCEPT ![i] =
                             @ + (IF result.inv[i].pending.cmd = "CreateBucket" /\ ~r.err.isErr
                                  THEN 1 ELSE 0)]

NextConcurrent ==
    \E i \in Invocations :
        \/ Invoke(i)
        \/ Answer(i)

SpecConcurrent == InitConcurrent /\ [][NextConcurrent]_vars

(***************************************************************************)
(* Invocations for three repositories.  The mount tables of o/r/main and   *)
(* o2/r2/main send /mnt/a to the same url, that of o/r/dev sends it to     *)
(* another, and o2/r2/main mounts /mnt/b on its own.                       *)
(***************************************************************************)
Repositories == {<<"o", "r", "main">>, <<"o", "r", "dev">>, <<"o2", "r2", "main">>}

MountTableOf(repository) ==
    CASE repository = <<"o", "r", "main">> -> MountTable
      [] repository = <<"o", "r", "dev">> -> <<[path |-> "/mnt", url |-> "https://drive/y"]>>
      [] repository = <<"o2", "r2", "main">> ->
             <<[path |-> "/mnt/b", url |-> "https://drive/y"],
               [path |-> "/mnt", url |-> "https://drive/x"]>>

RepositoryRequests ==
    {[Request(path, prefix, JsUndefined) EXCEPT !.owner = r[1], !.repo = r[2], !.ref = r[3]] :
        r \in Repositories, path \in {"/mnt/a", "/mnt/b"}, prefix \in {undefined, "preview"}}

RepositoryBackends ==
    { [b \in Buckets |->
         CASE b = TEMPLATE_BUCKET -> [EmptyBucket EXCEPT !.tags = TemplateTags]
           [] b = CODE_BUCKET ->
                  [EmptyBucket EXCEPT !.objects =
                      [k \in Keys |->
                          IF \E r \in Repositories : k = fstabKey(r[1], r[2], r[3])
                          THEN [FstabObject EXCEPT !.Body =
                                   MountTableOf(CHOOSE r \in Repositories :
                                                    k = fstabKey(r[1], r[2], r[3]))]
                          ELSE NoObject]]
           [] b = OtherBucket -> ob
           [] b = ContentBucket -> cb ]
      : cb \in {NoBucket, EmptyBucket}, ob \in {NoBucket, EmptyBucket} }

InitRepositories ==
    /\ s3 \in RepositoryBackends
    /\ Fresh

RepositoryDocument == Upstream(200, With(NoHeaders, h_content_type, "text/html"), <<0, 1>>)

UpdateRepository ==
    \E req \in RepositoryRequests :
        FinishMain(main(s3, req, RepositoryDocument, NoFault), req, RepositoryDocument, NoFault)

NextRepositories == UpdateRepository

SpecRepositories == InitRepositories /\ [][NextRepositories]_vars

(***************************************************************************)
(* escapeTagValue.  A value is a string; its characters are compared by    *)
(* their codes, as the character class of the regular expression does.     *)
(***************************************************************************)
\* the printable characters: from the space (code 32) to the underscore
\* (code 95), and from a (code 97) to the tilde (code 126)
Printable == " !\"#$%&'()*+,-./0123456789:;<=>?@ABCDEFGHIJKLMNOPQRSTUVWXYZ[\\]^_"
PrintableFromA == "abcdefghijklmnopqrstuvwxyz{|}~"

charCode(c) ==
    IF \E i \in 1..Len(Printable) : charAt(Printable, i) = c
    THEN 31 + (CHOOSE i \in 1..Len(Printable) : charAt(Printable, i) = c)
    ELSE 96 + (CHOOSE i \in 1..Len(PrintableFromA) : charAt(PrintableFromA, i) = c)

\* s.substring(from, to), on positions counted from 0
substring(s, from, to) == SubSeq(s, from + 1, to)

\* t is in s at the position i, counted from 1
At(s, i, t) == i + Len(t) - 1 <= Len(s) /\ SubSeq(s, i, i + Len(t) - 1) = t

\* value.match(/https:\/\/.*\.sharepoint\.com/)
matchSharepoint(value) ==
    \E i \in 1..Len(value) :
        /\ At(value, i, "https://")
        /\ \E j \in (i + 8)..Len(value) : At(value, j, ".sharepoint.com")

\* value.match(/https:\/\/drive.google.com/): the two dots match any character
matchDrive(value) ==
    \E i \in 1..Len(value) :
        /\ At(value, i, "https://drive")
        /\ i + 13 <= Len(value)
        /\ At(value, i + 14, "google")
        /\ i + 20 <= Len(value)
        /\ At(value, i + 21, "com")

\* value.indexOf('?'), counted from 0, -1 when there is none
indexOfQuery(value) ==
    IF \E i \in 1..Len(value) : charAt(value, i) = "?"
    THEN (CHOOSE i \in 1..Len(value) :
              /\ charAt(value, i) = "?"
              /\ \A j \in 1..(i - 1) : charAt(value, j) # "?") - 1
    ELSE -1

\* the escape sequences decodeURI decodes: %3B stands for a reserved
\* character and stays as it is
Decoded(hex) ==
    CASE hex = "20" -> " "
      [] hex = "21" -> "!"
      [] hex = "3B" -> "%3B"

Returned(v) == [threw |-> FALSE, value |-> v]
URIError == [threw |-> TRUE, value |-> "URI malformed"]

\* decodeURI, from the position i on, with what is decoded so far
RECURSIVE decodeFrom(_, _, _)
decodeFrom(value, i, decoded) ==
    IF i > Len(value) THEN Returned(decoded)
    ELSE IF charAt(value, i) # "%" THEN decodeFrom(value, i + 1, decoded \o charAt(value, i))
    ELSE IF i + 2 > Len(value) \/ SubSeq(value, i + 1, i + 2) \notin {"20", "21", "3B"}
    THEN URIError
    ELSE decodeFrom(value, i + 3, decoded \o Decoded(SubSeq(value, i + 1, i + 2)))

\* decodeURI(value): a % that does not begin an escape sequence of a
\* character raises a URIError
decodeURI(value) == decodeFrom(value, 1, "")

InRange(c, from, to) == charCode(c) >= charCode(from) /\ charCode(c) <= charCode(to)

\* [A-Za-z0-9 +-=._:/@]: in the class, +-= is the range from + to =
InClass(c) ==
    \/ InRange(c, "A", "Z") \/ InRange(c, "a", "z") \/ InRange(c, "0", "9")
    \/ c = " " \/ InRange(c, "+", "=")
    \/ c \in {".", "_", ":", "/", "@"}

\* value.replace(/[^A-Za-z0-9 +-=._:/@]/g, '_')
RECURSIVE replaceOutside(_)
replaceOutside(value) ==
    IF value = "" THEN ""
    ELSE (IF InClass(charAt(value, 1)) THEN charAt(value, 1) ELSE "_")
         \o replaceOutside(SubSeq(value, 2, Len(value)))

escapeTagValue(value) ==
    IF matchSharepoint(value) THEN decodeURI(value)
    ELSE IF matchDrive(value)
    THEN Returned(substring(value, 0, IF indexOfQuery(value) # -1 THEN indexOfQuery(value)
                                      ELSE Len(value)))
    ELSE Returned(replaceOutside(value))

(***************************************************************************)
(* The values escapeTagValue is applied to: up to MaxTokens pieces, each a *)
(* piece of one of the two url shapes, an escape sequence or a character.  *)
(***************************************************************************)
MaxTokens == 3

Tokens ==
    {"https://", ".sharepoint.com", "https://drive.google.com", "/a", " ", ";", "!", "?",
     "%20", "%21", "%"}

RECURSIVE concat(_)
concat(ts) == IF ts = <<>> THEN "" ELSE Head(ts) \o concat(Tail(ts))

TagValues == {concat(ts) : ts \in UNION {[1..n -> Tokens] : n \in 0..MaxTokens}}

InitTag ==
    /\ s3 = <<>>
    /\ clients = <<>>
    /\ calls = <<>>
    /\ created = <<>>
    /\ result \in {[op |-> "value", value |-> v] : v \in TagValues}

Escape ==
    /\ result.op = "value"
    /\ result' = [op |-> "escapeTagValue", value |-> result.value,
                  ret |-> escapeTagValue(result.value)]
    /\ UNCHANGED <<s3, clients, calls, created>>

NextTag == Escape

SpecTag == InitTag /\ [][NextTag]_vars

(***************************************************************************)
(* The state machine of load over objects with and without the content     *)
(* encoding: the content bucket holds, under each key, nothing or an       *)
(* object put there by other means without a content encoding, whose bytes *)
(* are plain or happen to be those of a gzip member.                       *)
(***************************************************************************)
UnencodedObjects ==
    {[PlainObject EXCEPT !.Body = b] : b \in {<<1>>, gzip(<<0, 1>>)}}

EncodingBackends ==
    { [b \in Buckets |->
         CASE b = TEMPLATE_BUCKET -> [EmptyBucket EXCEPT !.tags = TemplateTags]
           [] b = CODE_BUCKET -> EmptyBucket
           [] b = OtherBucket -> EmptyBucket
           [] b = ContentBucket ->
                  [EmptyBucket EXCEPT !.objects["live/mnt/a"] = live,
                                      !.objects["preview/mnt/a"] = preview] ]
      : live \in UnencodedObjects \cup {NoObject},
        preview \in UnencodedObjects }

InitEncoding ==
    /\ s3 \in EncodingBackends
    /\ Fresh

NextEncoding ==
    \/ StoreBody(RW)
    \/ Load(RW)
    \/ Load(RO)

SpecEncoding == InitEncoding /\ [][NextEncoding]_vars

(***************************************************************************)
(* contentProxy alone: one request upstream, answered with any of four     *)
(* statuses and any set of six headers.                                    *)
(***************************************************************************)
ProxyStatuses == {200, 304, 404, 500}

ProxyHeaderNames ==
    {h_x_error, h_vary, h_cache_control, h_content_type, h_last_modified, h_x_source_location}

ProxyHeaderValue(name) ==
    CASE name = h_x_error -> "not found"
      [] name = h_vary -> "x-a"
      [] name = h_cache_control -> "no-store"
      [] name = h_content_type -> "text/html"
      [] name = h_last_modified -> "lm1"
      [] name = h_x_source_location -> "loc1"

ProxyUpstreams ==
    {Upstream(status, [n \in names |-> ProxyHeaderValue(n)], <<0>>) :
        status \in ProxyStatuses, names \in SUBSET ProxyHeaderNames}

ProxyOptions ==
    [cache |-> "no-store", fetchTimeout |-> 20000, requestId |-> "rid-1",
     token |-> undefined, lastModified |-> undefined]

InitProxy ==
    /\ s3 \in {st \in InitialMainBackends : HasObject(st, CODE_BUCKET, FstabKey)
                                            /\ ~HasBucket(st, ContentBucket)}
    /\ clients = <<>>
    /\ calls = <<>>
    /\ created = <<>>
    /\ result \in {[op |-> "upstream", res |-> up] : up \in ProxyUpstreams}

Proxy ==
    /\ result.op = "upstream"
    /\ \E w \in {contentProxy(Invocation(s3), Request("/mnt/a", undefined, JsUndefined),
                              ProxyOptions, result.res)} :
           result' = [op |-> "contentProxy", res |-> result.res, err |-> w.err,
                      ret |-> w.ret, fetches |-> w.fetches]
    /\ UNCHANGED <<s3, clients, calls, created>>

NextProxy == Proxy

SpecProxy == InitProxy /\ [][NextProxy]_vars

(***************************************************************************)
(* The headers of a document on their way from the upstream service into   *)
(* the object store: contentProxy alone, and a whole update by main, each  *)
(* for an upstream response with any set of seven headers, four of them    *)
(* named in PASSTHROUGH_HEADERS, and possibly one with the empty value.    *)
(***************************************************************************)
PassthroughStatuses == {200, 201, 404}

PassthroughHeaderNames ==
    {h_content_type, h_cache_control, h_last_modified, h_x_source_location,
     h_expires, h_x_error, h_x_source_last_modified}

PassthroughHeaderValue(name) ==
    CASE name = h_content_type -> "text/html"
      [] name = h_cache_control -> "no-store"
      [] name = h_last_modified -> "lm1"
      [] name = h_x_source_location -> "loc1"
      [] name = h_expires -> "exp1"
      [] name = h_x_error -> "none"
      [] name = h_x_source_last_modified -> "slm1"

PassthroughUpstreams ==
    {Upstream(status,
              [n \in names |-> IF n \in empty THEN "" ELSE PassthroughHeaderValue(n)],
              <<0, 1>>) :
        status \in PassthroughStatuses,
        names \in SUBSET PassthroughHeaderNames,
        empty \in {{}, {h_cache_control}, {h_x_source_location}}}

InitPassthrough ==
    /\ s3 \in {st \in InitialMainBackends : HasObject(st, CODE_BUCKET, FstabKey)}
    /\ clients = <<>>
    /\ calls = <<>>
    /\ created = <<>>
    /\ result \in {[op |-> "upstream", res |-> up] : up \in PassthroughUpstreams}

\* contentProxy is called for the upstream response
ProxyDocument ==
    /\ result.op = "upstream"
    /\ \E w \in {contentProxy(Invocation(s3), Request("/mnt/a", undefined, JsUndefined),
                              ProxyOptions, result.res)} :
           result' = [op |-> "contentProxy", res |-> result.res, err |-> w.err,
                      ret |-> w.ret, key |-> "live/mnt/a"]
    /\ UNCHANGED <<s3, clients, calls, created>>

\* main is invoked and the upstream service answers with the response
UpdateDocument ==
    /\ result.op = "upstream"
    /\ \E w \in {main(s3, Request("/mnt/a", undefined, JsUndefined), result.res, NoFault)} :
           /\ s3' = w.s3
           /\ calls' = w.log
           /\ result' = [op |-> "main", res |-> result.res, err |-> w.err,
                         ret |-> w.ret, key |-> "live/mnt/a"]
    /\ UNCHANGED <<clients, created>>

NextPassthrough ==
    \/ ProxyDocument
    \/ UpdateDocument

SpecPassthrough == InitPassthrough /\ [][NextPassthrough]_vars

(***************************************************************************)
(* getFetchOptions alone, for handler options with any of the keys         *)
(* requestId, token, lastModified, fetchTimeout and headers, empty values  *)
(* included, and any of five more keys, three of which are spelled as      *)
(* secrets are.                                                            *)
(***************************************************************************)
Absent == "<absent>"

OtherOptionKeys == {"cache", "SUPER_SECRET", "A1_", "Secret", "x_y"}

OptionHeaders ==
    <<[accept |-> "text/html"], [n \in {"x-request-id"} |-> "old"]>>

\* the options object with the given values; Absent and 0 stand for no key
OptionsOf(requestId, token, lastModified, fetchTimeout, headers, others) ==
    [k \in (IF requestId # Absent THEN {"requestId"} ELSE {})
           \cup (IF token # Absent THEN {"token"} ELSE {})
           \cup (IF lastModified # Absent THEN {"lastModified"} ELSE {})
           \cup (IF fetchTimeout # 0 THEN {"fetchTimeout"} ELSE {})
           \cup (IF headers # 0 THEN {"headers"} ELSE {})
           \cup others
       |-> CASE k = "requestId" -> requestId
             [] k = "token" -> token
             [] k = "lastModified" -> lastModified
             [] k = "fetchTimeout" -> fetchTimeout
             [] k = "headers" -> OptionHeaders[headers]
             [] OTHER -> "value of " \o k]

HandlerOptions ==
    {OptionsOf(requestId, token, lastModified, fetchTimeout, headers, others) :
        requestId \in {Absent, "", "1234"},
        token \in {Absent, null, "", "foobar"},
        lastModified \in {Absent, "", "lm1"},
        fetchTimeout \in {0, 1000},
        headers \in 0..Len(OptionHeaders),
        others \in SUBSET OtherOptionKeys}

InitOptions ==
    /\ s3 = [b \in Buckets |-> NoBucket]
    /\ clients = <<>>
    /\ calls = <<>>
    /\ created = <<>>
    /\ result \in {[op |-> "options", options |-> o] : o \in HandlerOptions}

\* getFetchOptions is called with the options
FetchOptions ==
    /\ result.op = "options"
    /\ result' = [op |-> "getFetchOptions", options |-> result.options,
                  ret |-> getFetchOptions(result.options)]
    /\ UNCHANGED <<s3, clients, calls, created>>

NextOptions == FetchOptions

SpecOptions == InitOptions /\ [][NextOptions]_vars

(***************************************************************************)
(* The storage clients over a backend in which the content bucket is       *)
(* missing at the start: a content bucket that is there later was created  *)
(* by one of the clients.                                                  *)
(***************************************************************************)
InitProvisioning ==
    /\ s3 \in {st \in InitialBackends : st[TEMPLATE_BUCKET].exists
                                        /\ ~st[ContentBucket].exists}
    /\ Fresh

SpecProvisioning == InitProvisioning /\ [][Next]_vars

(***************************************************************************)
(* Properties.                                                             *)
(***************************************************************************)
Succeeded(r) == ~r.err.isErr

\* C1: a load that follows a successful store of a non-empty body under the
\* same key, on the same read-write client, and meets no backend fault,
\* succeeds and returns exactly the bytes of that body.
C1_RoundTrip ==
    [][ ( /\ result.op = "store"
          /\ Succeeded(result)
          /\ result.res.body # <<>>
          /\ result'.op = "load"
          /\ result'.client = result.client
          /\ result'.key = result.key
          /\ ~result'.faulted )
        => ( /\ Succeeded(result')
             /\ result'.ret = Some(result.res.body) ) ]_vars

\* a load returned a body of full length that the bucket holds gzipped
C1_Witness ==
    /\ result.op = "load"
    /\ Succeeded(result)
    /\ ~result.ret.null
    /\ Len(result.ret.v) = MaxLen
    /\ s3[ContentBucket].objects[result.key].ContentEncoding = "gzip"
    /\ s3[ContentBucket].objects[result.key].Body = gzip(result.ret.v)
    /\ s3[ContentBucket].objects[result.key].Body # result.ret.v

ProvisioningCommands ==
    {"HeadBucket", "GetBucketTagging", "CreateBucket", "PutPublicAccessBlock",
     "PutBucketTagging"}

Commands(log) == {log[i].command.cmd : i \in DOMAIN log}

IsObjectOp(r) == r.op \in {"load", "metadata", "store", "copy"}

\* C2: on a read-only client a store or a copy ends with the read-only
\* error, sends no command to the backend, and leaves the backend as it was.
C2_ReadOnlyRejects ==
    [][ ( /\ result'.op \in {"store", "copy"}
          /\ clients[result'.client].readOnly )
        => ( /\ result'.err =
                  Error("Storage is read-only: " \o clients[result'.client].bucket, 0)
             /\ calls' = <<>>
             /\ s3' = s3 ) ]_vars

\* a copy on the read-only client was refused although its source is there
C2_Witness ==
    /\ result.op = "copy"
    /\ result.client = RO
    /\ result.err.isErr
    /\ calls = <<>>
    /\ HasObject(s3, ContentBucket, result.key)
    /\ ~HasObject(s3, ContentBucket, result.dest)

\* C3: an instance creates its bucket at most once, and once a read-write
\* instance is initialized none of its calls sends a bucket existence check,
\* a bucket creation or any other provisioning command; it stays initialized.
C3_InitOnce ==
    /\ [](\A c \in ClientIds : created[c] <= 1)
    /\ [][ \A c \in ClientIds :
             ( /\ clients[c].initialized
               /\ ~clients[c].readOnly
               /\ result'.client = c
               /\ IsObjectOp(result') )
             => ( /\ Commands(calls') \cap ProvisioningCommands = {}
                  /\ clients'[c].initialized ) ]_vars

\* the read-write client, having created its bucket, stored with one command
C3_Witness ==
    /\ created[RW] = 1
    /\ clients[RW].initialized
    /\ result.op = "store"
    /\ result.client = RW
    /\ Succeeded(result)
    /\ Commands(calls) = {"PutObject"}

C5_CopyDuplicates ==
    ( /\ result.op = "copy"
      /\ Succeeded(result) )
    => ( /\ result.source.exists
         /\ ObjectAt(s3, ContentBucket, result.dest) = result.source
         /\ ObjectAt(s3, ContentBucket, result.key) = result.source
         /\ load(Now(result.client), result.dest, NoFault).ret
              = load(Now(result.client), result.key, NoFault).ret
         /\ metadata(Now(result.client), result.dest, NoFault).ret
              = metadata(Now(result.client), result.key, NoFault).ret )

\* a copy replaced a different object at another key by one with metadata
C5_Witness ==
    /\ result.op = "copy"
    /\ Succeeded(result)
    /\ result.key # result.dest
    /\ result.before.exists
    /\ result.before # result.source
    /\ result.source.Metadata # <<>>
    /\ result.source.sys # <<>>

LastCall == calls[Len(calls)]

\* C6: a load or metadata whose object read is answered 404 returns null
\* without raising; when any command it sends is answered with another
\* error, it raises that very error; otherwise it returns a value.
C6_NotFoundIsNull ==
    ( /\ result.op \in {"load", "metadata"}
      /\ calls # <<>> )
    => IF /\ LastCall.command.cmd \in {"GetObject", "HeadObject"}
          /\ LastCall.err.isErr
          /\ LastCall.err.httpStatusCode = 404
       THEN Succeeded(result) /\ result.ret = NULL
       ELSE IF LastCall.err.isErr
       THEN result.err = LastCall.err
       ELSE Succeeded(result) /\ ~result.ret.null

\* the read-only client loaded from a bucket that does not exist and got null
C6_Witness ==
    /\ result.op = "load"
    /\ result.client = RO
    /\ ~HasBucket(s3, ContentBucket)
    /\ Succeeded(result)
    /\ result.ret = NULL

\* the entries of a metadata map m that a header of h accounts for
DerivedFrom(m, h) ==
    \A k \in DOMAIN m :
        \E n \in DOMAIN h :
            /\ h[n] = m[k]
            /\ k = n \/ (n = h_last_modified /\ k = h_x_source_last_modified)

\* C7: after a successful store under a key that held an object, load returns
\* the new body, and every metadata entry and every system attribute of the
\* object is the value of a header of the new response.
C7_StoreReplaces ==
    ( /\ result.op = "store"
      /\ Succeeded(result)
      /\ result.before.exists )
    => ( /\ load(Now(result.client), result.key, NoFault).ret = Some(result.res.body)
         /\ metadata(Now(result.client), result.key, NoFault).ret.v
              = ObjectAt(s3, ContentBucket, result.key).Metadata
         /\ DerivedFrom(ObjectAt(s3, ContentBucket, result.key).Metadata,
                        result.res.headers)
         /\ \A p \in DOMAIN ObjectAt(s3, ContentBucket, result.key).sys :
               \E n \in DOMAIN result.res.headers :
                   result.res.headers[n] = ObjectAt(s3, ContentBucket, result.key).sys[p] )

\* a store replaced an object that had another body, a metadata entry and a
\* system attribute that the new response does not bring
C7_Witness ==
    /\ result.op = "store"
    /\ Succeeded(result)
    /\ result.before.exists
    /\ result.before.Body # ObjectAt(s3, ContentBucket, result.key).Body
    /\ h_x_source_location \in DOMAIN result.before.Metadata
    /\ h_x_source_location \notin DOMAIN result.res.headers
    /\ h_x_source_location \notin DOMAIN ObjectAt(s3, ContentBucket, result.key).Metadata

\* C9: when the read of the template bucket's tags fails, the operation ends
\* there with that error, the content bucket is still missing (so no object
\* is written) and the instance is not initialized; and a bucket creation is
\* only ever sent right after a successful read of the template's tags.
C9_TemplateTagsFirst ==
    \A i \in DOMAIN calls :
        /\ ( /\ calls[i].command.cmd = "GetBucketTagging"
             /\ calls[i].err.isErr )
           => ( /\ i = Len(calls)
                /\ result.err = calls[i].err
                /\ ~HasBucket(s3, ContentBucket)
                /\ ~clients[result.client].initialized )
        /\ calls[i].command.cmd = "CreateBucket"
           => ( /\ i > 1
                /\ calls[i - 1].command.cmd = "GetBucketTagging"
                /\ ~calls[i - 1].err.isErr )

\* a store found the content bucket and the template bucket missing
C9_Witness ==
    /\ result.op = "store"
    /\ ~result.faulted
    /\ ~HasBucket(s3, TEMPLATE_BUCKET)
    /\ Len(calls) = 2
    /\ calls[1].command.cmd = "HeadBucket"
    /\ calls[2].command.cmd = "GetBucketTagging"
    /\ result.err = S3Error(404, "NoSuchBucket")
    /\ ~HasBucket(s3, ContentBucket)

\* the system attribute the claim names for a system header
ClaimedProperty(name) ==
    CASE name = h_content_type -> p_ContentType
      [] name = h_cache_control -> p_CacheControl
      [] name = h_expires -> p_Expires

ClaimedSystemHeaders == {h_content_type, h_cache_control, h_expires}

\* the metadata key the claim names for any other header
ClaimedMetadataKey(name) ==
    IF name = h_last_modified THEN h_x_source_last_modified ELSE name

\* a response that carries both last-modified and x-source-last-modified
BothLastModified(h) == {h_last_modified, h_x_source_last_modified} \subseteq DOMAIN h

\* the object a store wrote holds the system headers of h as the claimed
\* system attributes and nothing else, and its metadata keys are the claimed ones
ClassifiedKeys(obj, h) ==
    /\ \A n \in DOMAIN h \cap ClaimedSystemHeaders :
          /\ ClaimedProperty(n) \in DOMAIN obj.sys
          /\ obj.sys[ClaimedProperty(n)] = h[n]
          /\ n \notin DOMAIN obj.Metadata
    /\ DOMAIN obj.sys = {ClaimedProperty(n) : n \in DOMAIN h \cap ClaimedSystemHeaders}
    /\ DOMAIN obj.Metadata = {ClaimedMetadataKey(n) : n \in DOMAIN h \ ClaimedSystemHeaders}

\* the claim of C8 as it stands: after a successful store every system header
\* is the claimed system attribute and no metadata, every other header's value
\* is the metadata entry under its claimed key, and metadata(key) returns
\* exactly these entries.
C8_AsStated ==
    ( /\ result.op = "store"
      /\ Succeeded(result) )
    => ( /\ ClassifiedKeys(ObjectAt(s3, ContentBucket, result.key), result.res.headers)
         /\ \A n \in DOMAIN result.res.headers \ ClaimedSystemHeaders :
               ObjectAt(s3, ContentBucket, result.key).Metadata[ClaimedMetadataKey(n)]
                 = result.res.headers[n]
         /\ metadata(Now(result.client), result.key, NoFault).ret
              = Some(ObjectAt(s3, ContentBucket, result.key).Metadata) )

\* C8: after a successful store every system header is the claimed system
\* attribute and no metadata, every other header's value is the metadata entry
\* under its claimed key, and metadata(key) returns exactly these entries;
\* except that for a response with both last-modified and
\* x-source-last-modified the one entry x-source-last-modified holds the
\* value of one of the two.
C8_HeaderClassification ==
    ( /\ result.op = "store"
      /\ Succeeded(result) )
    => ( /\ ClassifiedKeys(ObjectAt(s3, ContentBucket, result.key), result.res.headers)
         /\ \A n \in DOMAIN result.res.headers \ ClaimedSystemHeaders :
               \/ ObjectAt(s3, ContentBucket, result.key).Metadata[ClaimedMetadataKey(n)]
                    = result.res.headers[n]
               \/ /\ BothLastModified(result.res.headers)
                  /\ n \in {h_last_modified, h_x_source_last_modified}
                  /\ ObjectAt(s3, ContentBucket, result.key).Metadata[h_x_source_last_modified]
                       \in {result.res.headers[h_last_modified],
                            result.res.headers[h_x_source_last_modified]}
         /\ metadata(Now(result.client), result.key, NoFault).ret
              = Some(ObjectAt(s3, ContentBucket, result.key).Metadata) )

\* a store of a response with the three system headers, last-modified and
\* another header, whose last-modified is now under x-source-last-modified
C8_Witness ==
    /\ result.op = "store"
    /\ Succeeded(result)
    /\ DOMAIN result.res.headers = HeaderNames \ {h_x_source_last_modified}
    /\ ObjectAt(s3, ContentBucket, result.key).Metadata[h_x_source_last_modified]
         = HeaderValue(h_last_modified)
    /\ ObjectAt(s3, ContentBucket, result.key).sys[p_ContentType] = "text/plain"

\* a command of the invocation failed, other than by the 404 that tells the
\* code that a bucket or an object is not there
BackendFailed(log) ==
    \E i \in DOMAIN log :
        /\ log[i].err.isErr
        /\ ~( /\ log[i].err.httpStatusCode = 404
              /\ log[i].command.cmd \in {"HeadBucket", "HeadObject", "GetObject"} )

\* the request has its four parameters and its path lies under a mount point
\* of the fstab.yaml in the code bus
Mounted(req) ==
    /\ req.owner # "" /\ req.repo # "" /\ req.ref # "" /\ req.path # ""
    /\ HasObject(s3, CODE_BUCKET, fstabKey(req.owner, req.repo, req.ref))
    /\ match(s3[CODE_BUCKET].objects[fstabKey(req.owner, req.repo, req.ref)].Body,
             req.path) # NULL

\* C10: an invocation for a mounted path whose fetch is answered with a
\* success status, and none of whose backend commands fails, sends exactly
\* one PutObject; its key is the prefix of the request, 'live' when the request
\* has none, followed by the path; its body gunzips to the body fetched; and
\* main returns 200 with an empty body.
C10_UpdateStores ==
    ( /\ result.op = "main"
      /\ Mounted(result.req)
      /\ result.res.kind = "response"
      /\ ok(result.res.status)
      /\ ~BackendFailed(calls) )
    => ( /\ Cardinality(Stores(calls)) = 1
         /\ \A i \in Stores(calls) :
               /\ calls[i].command.Key
                    = (IF result.req.prefix = undefined THEN "live" ELSE result.req.prefix)
                        \o result.req.path
               /\ IsGzip(calls[i].command.Body)
               /\ gunzip(calls[i].command.Body) = result.res.body
               /\ ~calls[i].err.isErr
         /\ Succeeded(result)
         /\ result.ret = Response(200, NoHeaders, <<>>) )

\* an invocation without a prefix created the bucket and stored the two bytes
\* fetched, gzipped, under live/mnt/a
C10_Witness ==
    /\ result.op = "main"
    /\ result.req.prefix = undefined
    /\ result.res.kind = "response"
    /\ result.res.body = <<0, 1>>
    /\ created[RW] = 1
    /\ result.ret.status = 200
    /\ HasObject(s3, ContentBucket, "live/mnt/a")
    /\ s3[ContentBucket].objects["live/mnt/a"].Body = gzip(<<0, 1>>)
    /\ s3[ContentBucket].objects["live/mnt/a"].Body # <<0, 1>>

\* every key of every bucket holds after the step what it held before
ObjectsKept ==
    \A b \in Buckets, k \in Keys : ObjectAt(s3', b, k) = ObjectAt(s3, b, k)

\* C11: an invocation whose request upstream is answered with a status that
\* is no success returns the response of contentProxy as it is (404 for an
\* upstream 404), sends no PutObject and leaves every object as it was.
C11_FailurePassesThrough ==
    [][ ( /\ result'.op = "main"
          /\ result'.fetches # <<>>
          /\ result'.res.kind = "response"
          /\ ~(result'.res.status >= 200 /\ result'.res.status <= 299) )
        => ( /\ Succeeded(result')
             /\ result'.ret = proxied(result'.res)
             /\ result'.res.status = 404 => result'.ret.status = 404
             /\ result'.ret.body = result'.res.body
             /\ Stores(calls') = {}
             /\ Commands(calls') \cap {"PutObject", "CopyObject"} = {}
             /\ ObjectsKept ) ]_vars

\* an invocation answered 404 upstream returned 404 and the object under its
\* key is the one that was there
C11_Witness ==
    /\ result.op = "main"
    /\ Len(result.fetches) = 1
    /\ result.res.kind = "response"
    /\ result.res.status = 404
    /\ result.ret.status = 404
    /\ result.before.exists
    /\ ObjectAt(s3, ContentBucket, result.key) = result.before

\* C12: an invocation with useLastModified set, for a key whose object has a
\* last-modified entry in its metadata, whose request upstream is answered
\* 304 without a body, returns 304 with an empty body, sends no PutObject and
\* leaves every object as it was.
C12_NotModified ==
    [][ ( /\ result'.op = "main"
          /\ parseBoolean(result'.req.useLastModified, FALSE)
          /\ result'.before.exists
          /\ h_last_modified \in DOMAIN result'.before.Metadata
          /\ result'.fetches # <<>>
          /\ result'.res.kind = "response"
          /\ result'.res.status = 304
          /\ result'.res.body = <<>> )
        => ( /\ Succeeded(result')
             /\ result'.ret.status = 304
             /\ result'.ret.body = <<>>
             /\ Stores(calls') = {}
             /\ ObjectsKept ) ]_vars

\* such an invocation sent the stored last-modified value upstream and
\* returned 304
C12_Witness ==
    /\ result.op = "main"
    /\ parseBoolean(result.req.useLastModified, FALSE)
    /\ result.before.exists
    /\ h_last_modified \in DOMAIN result.before.Metadata
    /\ Len(result.fetches) = 1
    /\ "if-modified-since" \in DOMAIN result.fetches[1].options.headers
    /\ result.fetches[1].options.headers["if-modified-since"]
         = result.before.Metadata[h_last_modified]
    /\ result.res.kind = "response"
    /\ result.res.status = 304
    /\ result.ret.status = 304
    /\ ObjectAt(s3, ContentBucket, result.key) = result.before

\* C13: an invocation with useLastModified set, for a key under which an
\* earlier invocation stored a response with a last-modified header (kept in
\* the metadata as x-source-last-modified), sends that value upstream as the
\* if-modified-since header of its request.
C13_ConditionalFetch ==
    ( /\ result.op = "main"
      /\ parseBoolean(result.req.useLastModified, FALSE)
      /\ result.before.exists
      /\ h_x_source_last_modified \in DOMAIN result.before.Metadata
      /\ result.fetches # <<>> )
    => ( /\ "if-modified-since" \in DOMAIN result.fetches[1].options.headers
         /\ result.fetches[1].options.headers["if-modified-since"]
              = result.before.Metadata[h_x_source_last_modified] )

\* no command of the invocation failed, but for a HeadBucket that found no
\* bucket or a CopyObject that found no source
NothingFailedButNotFound(log) ==
    \A i \in DOMAIN log :
        log[i].err.isErr
        => \/ log[i].command.cmd = "HeadBucket" /\ log[i].err.httpStatusCode = 404
           \/ log[i].command.cmd = "CopyObject" /\ log[i].err.Code = "NoSuchKey"

Valid(req) == req.owner # "" /\ req.repo # "" /\ req.ref # "" /\ req.path # ""

C17_MountRequired ==
    ( /\ result.op = "main"
      /\ Valid(result.req)
      /\ ~Mounted(result.req)
      /\ ~BackendFailed(calls) )
    => ( /\ Succeeded(result)
         /\ result.ret.status = 400
         /\ result.ret.body = <<>>
         /\ result.ret.headers =
              With(NoHeaders, h_x_error,
                   IF HasObject(s3, CODE_BUCKET,
                                fstabKey(result.req.owner, result.req.repo, result.req.ref))
                   THEN "path specified is not mounted in fstab.yaml: " \o result.req.path
                   ELSE "o/r/main/fstab.yaml not found in bucket 'helix-code-bus'")
         /\ clients[RW] = NoClient
         /\ result.fetches = <<>>
         /\ Commands(calls) = {"GetObject"}
         /\ \A i \in DOMAIN calls : calls[i].command.Bucket = CODE_BUCKET )

\* an invocation for a path under no mount point of the fstab.yaml was
\* answered 400
C17_Witness ==
    /\ result.op = "main"
    /\ result.req.path = "/other/b"
    /\ HasObject(s3, CODE_BUCKET, FstabKey)
    /\ Succeeded(result)
    /\ result.ret.status = 400
    /\ clients[RW] = NoClient

\* the commands a client sent: the code client sends to the code bucket only,
\* the content client to its own bucket and, when it creates it, to the
\* template bucket
SentBy(bucket, log) ==
    {i \in DOMAIN log :
        IF bucket = CODE_BUCKET THEN log[i].command.Bucket = CODE_BUCKET
        ELSE log[i].command.Bucket # CODE_BUCKET}

\* C18: when an invocation of main that passed validation is over, however it
\* ended (a response of any status, or an exception that left main), every
\* storage client it constructed is destroyed, each was closed once, and no
\* client sent a command after it was closed.
C18_ClientsClosed ==
    (result.op = "main" /\ Valid(result.req))
    => ( /\ clients[RO] # NoClient
         /\ \A c \in ClientIds : clients[c] # NoClient => clients[c].destroyed
         /\ Len(result.closes) = Cardinality({c \in ClientIds : clients[c] # NoClient})
         /\ \A j \in DOMAIN result.closes :
              /\ \E c \in ClientIds : /\ clients[c] # NoClient
                                       /\ clients[c].bucket = result.closes[j].bucket
              /\ \A i \in SentBy(result.closes[j].bucket, calls) :
                    i <= result.closes[j].at )

\* an invocation whose fstab.yaml could not be read left main with an
\* exception, its code client closed
C18_Witness ==
    /\ result.op = "main"
    /\ Valid(result.req)
    /\ BackendFailed(calls)
    /\ result.err.isErr
    /\ clients[RW] = NoClient
    /\ clients[RO].destroyed
    /\ Len(result.closes) = 1

\* an invocation that failed on the content bus was answered with both
\* clients closed
BothClosedAfterFailure ==
    /\ result.op = "main"
    /\ BackendFailed(calls)
    /\ Succeeded(result)
    /\ clients[RW] # NoClient
    /\ clients[RW].destroyed
    /\ clients[RO].destroyed
    /\ Len(result.closes) = 2

\* the request upstream was aborted (timeout) or the connection was reset
Transient(res) ==
    /\ res.kind = "error"
    /\ \/ res.error.name = "AbortError"
       \/ res.error.name = "FetchError" /\ res.error.Code = "ECONNRESET"

\* C19: an update whose request upstream is aborted or whose connection is
\* reset is answered 504 with the message of the error, main does not raise,
\* the request was made once, no PutObject is sent and every object is what it
\* was.
C19_GatewayTimeout ==
    [][ ( /\ result'.op = "main"
          /\ result'.fetches # <<>>
          /\ Transient(result'.res) )
        => ( /\ Succeeded(result')
             /\ result'.ret.status = 504
             /\ result'.ret.body = Text(result'.res.error.message)
             /\ Len(result'.fetches) = 1
             /\ Stores(calls') = {}
             /\ ObjectsKept ) ]_vars

\* a connection reset upstream was answered 504, both clients closed
C19_Witness ==
    /\ result.op = "main"
    /\ result.fetches # <<>>
    /\ result.res.kind = "error"
    /\ result.res.error.name = "FetchError"
    /\ result.res.error.Code = "ECONNRESET"
    /\ Succeeded(result)
    /\ result.ret.status = 504
    /\ clients[RW].destroyed

\* the failed commands of an invocation, other than the 404s that tell the
\* code that a bucket or an object is not there
Failures(log) ==
    {i \in DOMAIN log :
        /\ log[i].err.isErr
        /\ ~( /\ log[i].err.httpStatusCode = 404
              /\ log[i].command.cmd \in {"HeadBucket", "HeadObject", "GetObject"} )}

\* C20: an invocation of main that passed validation and met a backend
\* failure other than a 404, the load of fstab.yaml from the code bucket
\* included, returns status 500 with the message of the error in the x-error
\* header, and raises nothing.
C20_FatalIs500 ==
    (result.op = "main" /\ Valid(result.req) /\ Failures(calls) # {})
    => ( /\ Succeeded(result)
         /\ result.ret.status = 500
         /\ h_x_error \in DOMAIN result.ret.headers
         /\ \E i \in Failures(calls) :
              result.ret.headers[h_x_error] = calls[i].err.message )

\* what main does of such a failure: a failed load of fstab.yaml leaves main
\* as the exception it is; a failure on the content bus is answered 500 with
\* the message as the body and no header
FatalAsCoded ==
    (result.op = "main" /\ Valid(result.req) /\ Failures(calls) # {})
    => IF 1 \in Failures(calls)
       THEN /\ result.err = calls[1].err
            /\ calls[1].command = [cmd |-> "GetObject", Bucket |-> CODE_BUCKET,
                                   Key |-> FstabKey]
            /\ Len(calls) = 1
       ELSE /\ Succeeded(result)
            /\ result.ret.status = 500
            /\ result.ret.headers = NoHeaders
            /\ \E i \in Failures(calls) :
                 result.ret.body = Text(calls[i].err.message)

\* the key an update stores under
KeyOf(req) == (IF req.prefix = undefined THEN "live" ELSE req.prefix) \o req.path

\* the invocation ended with 200 and the object it fetched is under its key
Stored(st, v) ==
    /\ v.state = "done"
    /\ ~v.err.isErr
    /\ v.ret.status = 200
    /\ HasObject(st, ContentBucket, KeyOf(v.req))

\* C21: when two invocations of update for the same mount point are both
\* invoked while the content bucket does not exist, then however the answers
\* to their commands interleave, once both are over the bucket was created
\* once and each invocation ended with 200 and its object stored.
C21_ConcurrentUpdates ==
    ( /\ result.op = "concurrent"
      /\ \A i \in Invocations : result.inv[i].state = "done" /\ result.inv[i].missing )
    => ( /\ created[1] + created[2] = 1
         /\ \A i \in Invocations : Stored(s3, result.inv[i]) )

\* what holds of such invocations: the bucket was created once, at least one
\* invocation stored its object, and one that did not was answered 409
\* BucketAlreadyOwnedByYou to its CreateBucket and returned 500
ConcurrentAsCoded ==
    ( /\ result.op = "concurrent"
      /\ \A i \in Invocations : result.inv[i].state = "done" /\ result.inv[i].missing )
    => ( /\ created[1] + created[2] = 1
         /\ \E i \in Invocations : Stored(s3, result.inv[i])
         /\ \A i \in Invocations :
              \/ Stored(s3, result.inv[i])
              \/ /\ ~result.inv[i].err.isErr
                 /\ result.inv[i].ret.status = 500
                 /\ result.inv[i].ret.body = Text("BucketAlreadyOwnedByYou")
                 /\ created[i] = 0
                 /\ \E n \in DOMAIN calls :
                      /\ calls[n].by = i
                      /\ calls[n].command.cmd = "CreateBucket"
                      /\ calls[n].err.isErr
                      /\ calls[n].err.httpStatusCode = 409 )

\* an invocation that ran while the other sent nothing ended with 200 and
\* its object stored
AloneStored ==
    \A i \in Invocations :
        ( /\ result.op = "concurrent"
          /\ result.inv[i].state = "done"
          /\ \A n \in DOMAIN calls : calls[n].by = i )
        => Stored(s3, result.inv[i])

\* C22: a store that follows a successful store of the same response under
\* the same key on the same client, and a copy that follows a successful copy
\* of the same source to the same destination, succeed when no backend fault
\* meets them and leave every bucket and object as the first call left them.
C22_SafeToRepeat ==
    [][ /\ ( /\ result.op = "store"
             /\ Succeeded(result)
             /\ result'.op = "store"
             /\ result'.client = result.client
             /\ result'.key = result.key
             /\ result'.res = result.res
             /\ ~result'.faulted )
           => (Succeeded(result') /\ s3' = s3)
        /\ ( /\ result.op = "copy"
             /\ Succeeded(result)
             /\ result'.op = "copy"
             /\ result'.client = result.client
             /\ result'.key = result.key
             /\ result'.dest = result.dest
             /\ ~result'.faulted )
           => (Succeeded(result') /\ s3' = s3) ]_vars

\* a store succeeded over the very object it writes, left by an earlier store
C22_Witness ==
    /\ result.op = "store"
    /\ Succeeded(result)
    /\ ~result.faulted
    /\ result.before.exists
    /\ result.before.ContentEncoding = "gzip"
    /\ result.before = ObjectAt(s3, ContentBucket, result.key)
    /\ calls # <<>>
    /\ calls[Len(calls)].command.cmd = "PutObject"

\* C23: no call of a storage client (load, metadata, store, copy, close),
\* whether it succeeds or meets a backend fault, removes a bucket or the
\* object under a key: what is there before the call is there after it.
C23_NothingDeleted ==
    [][ /\ \A b \in Buckets : HasBucket(s3, b) => HasBucket(s3', b)
        /\ \A b \in Buckets : \A k \in Keys : HasObject(s3, b, k) => HasObject(s3', b, k)
      ]_vars

\* a copy between two keys succeeded and its source is still there
C23_Witness ==
    /\ result.op = "copy"
    /\ Succeeded(result)
    /\ result.key # result.dest
    /\ result.source.exists
    /\ ObjectAt(s3, ContentBucket, result.key) = result.source
    /\ ObjectAt(s3, ContentBucket, result.dest) = result.source

\* C24: a call on a read-only client sends no bucket existence check, no
\* provisioning command, no PutObject and no CopyObject: a store or a copy
\* sends nothing, and a load or a metadata sends the one read of its object,
\* whether the instance was initialized or not, and leaves it initialized.
C24_ReadOnlySkipsProvisioning ==
    [][ ( /\ IsObjectOp(result')
          /\ clients[result'.client].readOnly )
        => ( /\ Commands(calls') \subseteq {"GetObject", "HeadObject"}
             /\ result'.op \in {"store", "copy"} => calls' = <<>>
             /\ result'.op \in {"load", "metadata"} =>
                  /\ Len(calls') = 1
                  /\ calls'[1].command =
                       [cmd |-> IF result'.op = "load" THEN "GetObject" ELSE "HeadObject",
                        Bucket |-> clients[result'.client].bucket, Key |-> result'.key]
                  /\ clients'[result'.client].initialized
             /\ \A b \in Buckets : HasBucket(s3', b) = HasBucket(s3, b) ) ]_vars

\* the read-only client asked for the metadata of a key in a bucket that does
\* not exist: one HeadObject, the bucket still missing, the client initialized
C24_Witness ==
    /\ result.op = "metadata"
    /\ result.client = RO
    /\ clients[RO].readOnly
    /\ clients[RO].initialized
    /\ ~HasBucket(s3, ContentBucket)
    /\ Len(calls) = 1
    /\ calls[1].command.cmd = "HeadObject"
    /\ Succeeded(result)
    /\ result.ret = NULL

\* the url of the mount point the path of a mounted request lies under
MountUrl(req) ==
    match(s3[CODE_BUCKET].objects[fstabKey(req.owner, req.repo, req.ref)].Body, req.path).url

\* C25: the content client of an invocation for a mounted path is made for
\* the bucket 'h3' followed by the first 59 of the 64 hex characters of the
\* SHA-256 of the url of the matched mount point, every command of the
\* invocation that is not for the code bus or the template goes to that
\* bucket, and two invocations in a row whose paths match mount points of the
\* same url use the same bucket, whatever their owner, repo, ref, path and
\* prefix.
C25_BucketOfMountUrl ==
    [][ (result'.op = "main" /\ Mounted(result'.req))
        => ( /\ clients'[RW] # NoClient
             /\ clients'[RW].bucket = "h3" \o SubSeq(sha256(MountUrl(result'.req)), 1, 59)
             /\ Len(clients'[RW].bucket) = 61
             /\ Len(sha256(MountUrl(result'.req))) = 64
             /\ \A i \in DOMAIN calls' :
                  calls'[i].command.Bucket \in {CODE_BUCKET, TEMPLATE_BUCKET, clients'[RW].bucket}
             /\ ( /\ result.op = "main"
                  /\ Mounted(result.req)
                  /\ MountUrl(result.req) = MountUrl(result'.req) )
                => clients'[RW].bucket = clients[RW].bucket ) ]_vars

\* an invocation for preview/mnt/a of o2/r2/main stored into the bucket that
\* holds live/mnt/a and live/mnt/b, stored for other repositories or paths
C25_Witness ==
    /\ result.op = "main"
    /\ result.req.owner = "o2"
    /\ result.req.prefix = "preview"
    /\ result.req.path = "/mnt/a"
    /\ clients[RW] # NoClient
    /\ clients[RW].bucket = ContentBucket
    /\ Succeeded(result)
    /\ result.ret.status = 200
    /\ HasObject(s3, ContentBucket, "preview/mnt/a")
    /\ HasObject(s3, ContentBucket, "live/mnt/b")
    /\ HasObject(s3, OtherBucket, "live/mnt/b")

\* the examples of the unit test of escapeTagValue
TestedExamples ==
    /\ escapeTagValue("https://example.sharepoint.com/sites/Site/Shared%20Documents/project")
         = Returned("https://example.sharepoint.com/sites/Site/Shared Documents/project")
    /\ escapeTagValue("https://drive.google.com/drive/folders/id?usp=sharing")
         = Returned("https://drive.google.com/drive/folders/id")
    /\ escapeTagValue("https://drive.google.com/drive/folders/id2")
         = Returned("https://drive.google.com/drive/folders/id2")
    /\ escapeTagValue("!@#$%^&*()_+-=[]{};':\"\\|,.<>/?")
         = Returned("_@_________+-=____;_:___,.<_/_")

\* the characters a tag value may have: letters, digits, the space and
\* + - = . _ : / @
Allowed(c) ==
    \/ InRange(c, "A", "Z") \/ InRange(c, "a", "z") \/ InRange(c, "0", "9")
    \/ c \in {" ", "+", "-", "=", ".", "_", ":", "/", "@"}

Legal(s) == \A i \in 1..Len(s) : Allowed(charAt(s, i))

\* C26: of a value that matches neither url shape, escapeTagValue returns a
\* string of the same length that has, at every position, the character of
\* the value when it is an allowed one and an underscore when it is not.
C26_EscapesOutsideAllowed ==
    ( /\ result.op = "escapeTagValue"
      /\ ~matchSharepoint(result.value)
      /\ ~matchDrive(result.value) )
    => ( /\ ~result.ret.threw
         /\ Len(result.ret.value) = Len(result.value)
         /\ \A i \in 1..Len(result.value) :
              charAt(result.ret.value, i) =
                 IF Allowed(charAt(result.value, i)) THEN charAt(result.value, i) ELSE "_" )

\* what escapeTagValue does of such a value: it keeps the characters of the
\* class of its regular expression, in which +-= is the range of the thirteen
\* characters from + to =, the comma, the semicolon and < among them
EscapesOutsideClass ==
    ( /\ result.op = "escapeTagValue"
      /\ ~matchSharepoint(result.value)
      /\ ~matchDrive(result.value) )
    => ( /\ ~result.ret.threw
         /\ Len(result.ret.value) = Len(result.value)
         /\ \A i \in 1..Len(result.value) :
              charAt(result.ret.value, i) =
                 IF \/ Allowed(charAt(result.value, i))
                    \/ charAt(result.value, i) \in {",", ";", "<"}
                 THEN charAt(result.value, i) ELSE "_" )

\* C27: of every value, a sharepoint url and a Google Drive url included,
\* escapeTagValue returns a string, and the string has allowed characters
\* only.
C27_TagValueLegal ==
    result.op = "escapeTagValue"
    => (~result.ret.threw /\ Legal(result.ret.value))

\* the same of the values of the two url shapes alone
UrlShapesLegal ==
    ( /\ result.op = "escapeTagValue"
      /\ matchSharepoint(result.value) \/ matchDrive(result.value) )
    => (~result.ret.threw /\ Legal(result.ret.value))

\* what escapeTagValue does of the two url shapes: a sharepoint url is
\* decoded or, with a % that begins no escape sequence, raises a URIError; a
\* Google Drive url is cut at its first ?; a character that is not allowed
\* stays in either
UrlShapesAsCoded ==
    ( /\ result.op = "escapeTagValue"
      /\ matchSharepoint(result.value) \/ matchDrive(result.value) )
    => IF matchSharepoint(result.value)
       THEN result.ret = decodeURI(result.value)
       ELSE /\ ~result.ret.threw
            /\ \E n \in 0..Len(result.value) :
                 /\ result.ret.value = SubSeq(result.value, 1, n)
                 /\ \A i \in 1..n : charAt(result.value, i) # "?"
                 /\ n < Len(result.value) => charAt(result.value, n + 1) = "?"

\* escapeTagValue returned a sharepoint url with an exclamation mark
SharepointIllegal ==
    /\ result.op = "escapeTagValue"
    /\ result.value = "https://.sharepoint.com%21"
    /\ result.ret = Returned("https://.sharepoint.com!")

\* escapeTagValue raised a URIError
SharepointThrew ==
    /\ result.op = "escapeTagValue"
    /\ result.value = "https://.sharepoint.com%"
    /\ result.ret.threw

\* escapeTagValue returned a Google Drive url with a semicolon
DriveIllegal ==
    /\ result.op = "escapeTagValue"
    /\ result.value = "https://drive.google.com;?"
    /\ result.ret = Returned("https://drive.google.com;")

\* the commands of _bucketCreate, in the order of the code
ProvisioningOrder ==
    <<"GetBucketTagging", "CreateBucket", "PutPublicAccessBlock", "PutBucketTagging">>

\* C28: a call that finds its bucket missing (its HeadBucket is answered 404)
\* sends next GetBucketTagging for the template bucket, CreateBucket,
\* PutPublicAccessBlock with every block set and PutBucketTagging for its own
\* bucket, in this order and each only after the one before succeeded; the
\* tag set put is the template's tags followed by the tags of the instance;
\* the object command is the sixth, sent only after the four succeeded, and it
\* is sent when no fault meets them.  No provisioning command is sent otherwise.
C28_ProvisioningOrder ==
    (IsObjectOp(result) /\ calls # <<>>)
    => IF /\ calls[1].command.cmd = "HeadBucket"
          /\ calls[1].err.isErr
          /\ calls[1].err.httpStatusCode = 404
       THEN /\ Len(calls) <= 6
            /\ \A i \in 2..Len(calls) :
                 /\ ~calls[i - 1].err.isErr \/ i = 2
                 /\ IF i <= 5 THEN calls[i].command.cmd = ProvisioningOrder[i - 1]
                    ELSE calls[i].command.cmd
                           \in {"GetObject", "HeadObject", "PutObject", "CopyObject"}
                 /\ calls[i].command.Bucket =
                      (IF i = 2 THEN TEMPLATE_BUCKET ELSE clients[result.client].bucket)
            /\ Len(calls) >= 4 => calls[4].command.BlockAll
            /\ Len(calls) >= 5 =>
                 calls[5].command.TagSet
                   = s3[TEMPLATE_BUCKET].tags \o clients[result.client].tags
            /\ (~result.faulted /\ HasBucket(s3, TEMPLATE_BUCKET)) => Len(calls) = 6
       ELSE \A i \in DOMAIN calls :
                calls[i].command.cmd \notin
                   {ProvisioningOrder[n] : n \in DOMAIN ProvisioningOrder}

\* a load on the read-write client found no bucket, provisioned it with the
\* four commands and then read its object, which is not there
C28_Witness ==
    /\ result.op = "load"
    /\ result.client = RW
    /\ Len(calls) = 6
    /\ calls[1].command.cmd = "HeadBucket"
    /\ calls[1].err.isErr
    /\ calls[5].command.cmd = "PutBucketTagging"
    /\ calls[5].command.TagSet = TemplateTags \o MountTags
    /\ s3[ContentBucket].tags = TemplateTags \o MountTags
    /\ s3[ContentBucket].pab
    /\ calls[6].command.cmd = "GetObject"
    /\ Succeeded(result)
    /\ result.ret = NULL

\* C29: a successful store sends its object with the content encoding gzip
\* and the key then holds an object with that encoding whose bytes are a
\* gzip member; a load of a key that holds an object, met by no fault,
\* returns the bytes whose gzip the object holds when its content encoding is
\* gzip, and the very bytes of the object when it is not, also when these
\* bytes are those of a gzip member.
C29_EncodingDecides ==
    [][ /\ (result'.op = "store" /\ Succeeded(result'))
           => ( /\ calls'[Len(calls')].command.cmd = "PutObject"
                /\ calls'[Len(calls')].command.ContentEncoding = "gzip"
                /\ ObjectAt(s3', ContentBucket, result'.key).ContentEncoding = "gzip"
                /\ IsGzip(ObjectAt(s3', ContentBucket, result'.key).Body) )
        /\ ( /\ result'.op = "load"
             /\ ~result'.faulted
             /\ HasObject(s3, ContentBucket, result'.key) )
           => ( /\ Succeeded(result')
                /\ ~result'.ret.null
                /\ IF ObjectAt(s3, ContentBucket, result'.key).ContentEncoding = "gzip"
                   THEN gzip(result'.ret.v) = ObjectAt(s3, ContentBucket, result'.key).Body
                   ELSE result'.ret.v = ObjectAt(s3, ContentBucket, result'.key).Body ) ]_vars

\* a load returned the bytes of an object without content encoding as they
\* are, although they are those of a gzip member
C29_Witness ==
    /\ result.op = "load"
    /\ Succeeded(result)
    /\ HasObject(s3, ContentBucket, result.key)
    /\ ObjectAt(s3, ContentBucket, result.key).ContentEncoding = ""
    /\ IsGzip(ObjectAt(s3, ContentBucket, result.key).Body)
    /\ result.ret = Some(ObjectAt(s3, ContentBucket, result.key).Body)

\* a load returned the two bytes stored, from an object with the encoding
LoadedEncoded ==
    /\ result.op = "load"
    /\ Succeeded(result)
    /\ HasObject(s3, ContentBucket, result.key)
    /\ ObjectAt(s3, ContentBucket, result.key).ContentEncoding = "gzip"
    /\ result.ret = Some(<<1, 0>>)

\* C30: of an upstream response whose status is not a success, contentProxy
\* returns a response with the upstream body, with the status the propagation
\* policy gives for the upstream status, 404 for 404, and with three headers
\* and no other: x-error and vary, each with what the upstream response has
\* under that name, and cache-control with max-age=60, whatever cache-control
\* and whatever other headers the upstream response has.
C30_FailureHeaders ==
    (result.op = "contentProxy" /\ ~ok(result.res.status))
    => ( /\ Succeeded(result)
         /\ result.ret.status = propagateStatusCode(result.res.status)
         /\ result.res.status = 404 => result.ret.status = 404
         /\ result.ret.body = result.res.body
         /\ DOMAIN result.ret.headers = {h_x_error, h_vary, h_cache_control}
         /\ result.ret.headers[h_x_error] = get(result.res.headers, h_x_error)
         /\ result.ret.headers[h_vary] = get(result.res.headers, h_vary)
         /\ result.ret.headers[h_cache_control] = "max-age=60"
         /\ Len(result.fetches) = 1 )

\* an upstream 404 with all six headers was answered 404 with the three
C30_Witness ==
    /\ result.op = "contentProxy"
    /\ result.res.status = 404
    /\ DOMAIN result.res.headers = ProxyHeaderNames
    /\ result.ret.status = 404
    /\ result.ret.headers =
         With(With(With(NoHeaders, h_x_error, "not found"), h_vary, "x-a"),
              h_cache_control, "max-age=60")

\* the headers of h that are named in the pass-through list and not empty
Passed(h) == {n \in DOMAIN h \cap PASSTHROUGH_HEADERS : h[n] # ""}

\* every PutObject of a log carries, as metadata and as properties, only
\* values of the headers in names of the header map h, each under the name
\* of its header, last-modified under x-source-last-modified
WrittenFrom(log, h, names) ==
    \A i \in Stores(log) :
        /\ \A k \in DOMAIN log[i].command.Metadata :
              \E n \in names \ ClaimedSystemHeaders :
                  /\ k = ClaimedMetadataKey(n)
                  /\ log[i].command.Metadata[k] = h[n]
        /\ \A p \in DOMAIN log[i].command.props :
              \E n \in names \cap ClaimedSystemHeaders :
                  /\ p = ClaimedProperty(n)
                  /\ log[i].command.props[p] = h[n]

\* C31: of an upstream response with a success status, contentProxy returns a
\* response with status 200, the upstream body and exactly those upstream
\* headers that are named in the pass-through list and are not empty, each
\* with its upstream value; and an update that fetched such a response
\* writes, as metadata and as system attributes of the object, nothing but
\* values of those headers.
C31_PassThrough ==
    /\ (result.op = "contentProxy" /\ ok(result.res.status))
       => ( /\ Succeeded(result)
            /\ result.ret.status = 200
            /\ result.ret.body = result.res.body
            /\ DOMAIN result.ret.headers = Passed(result.res.headers)
            /\ \A n \in DOMAIN result.ret.headers :
                  result.ret.headers[n] = result.res.headers[n] )
    /\ (result.op = "main" /\ ok(result.res.status))
       => ( /\ Succeeded(result)
            /\ Stores(calls) # {}
            /\ WrittenFrom(calls, result.res.headers, Passed(result.res.headers))
            /\ HasObject(s3, ContentBucket, result.key)
            /\ DOMAIN ObjectAt(s3, ContentBucket, result.key).Metadata
                 = {ClaimedMetadataKey(n) :
                       n \in Passed(result.res.headers) \ ClaimedSystemHeaders}
            /\ DOMAIN ObjectAt(s3, ContentBucket, result.key).sys
                 = {ClaimedProperty(n) :
                       n \in Passed(result.res.headers) \cap ClaimedSystemHeaders} )

\* an update fetched a 201 response with all seven headers, of which
\* x-source-location was empty, and the object written has the content type
\* and the cache control as system attributes, no Expires, and the one
\* metadata entry x-source-last-modified with the value of last-modified
C31_Witness ==
    /\ result.op = "main"
    /\ result.res.status = 201
    /\ DOMAIN result.res.headers = PassthroughHeaderNames
    /\ result.res.headers[h_x_source_location] = ""
    /\ Succeeded(result)
    /\ HasObject(s3, ContentBucket, result.key)
    /\ ObjectAt(s3, ContentBucket, result.key).Metadata
         = With(NoHeaders, h_x_source_last_modified, "lm1")
    /\ DOMAIN ObjectAt(s3, ContentBucket, result.key).sys = {p_CacheControl, p_ContentType}

\* contentProxy answered a 200 response with all seven headers, of which
\* cache-control was empty, with the three others of the list
ProxiedDocument ==
    /\ result.op = "contentProxy"
    /\ result.res.status = 200
    /\ DOMAIN result.res.headers = PassthroughHeaderNames
    /\ result.res.headers[h_cache_control] = ""
    /\ Succeeded(result)
    /\ DOMAIN result.ret.headers = {h_content_type, h_last_modified, h_x_source_location}

\* the keys the model draws that are made of uppercase letters, digits and
\* underscores only
SecretKeys == {"SUPER_SECRET", "A1_"}

\* C32: the options getFetchOptions returns have no top-level key requestId
\* and none token; their headers have the request id as x-request-id and
\* the token as x-github-token when these are not empty, and lastModified,
\* when it is set, as if-modified-since; and no top-level key made of
\* uppercase letters, digits and underscores only is left, while every other
\* key of the options is kept with its value.
C32_FetchOptions ==
    result.op = "getFetchOptions"
    => ( /\ "requestId" \notin DOMAIN result.ret
         /\ "token" \notin DOMAIN result.ret
         /\ "headers" \in DOMAIN result.ret
         /\ ("requestId" \in DOMAIN result.options /\ result.options.requestId # "")
            => ( /\ "x-request-id" \in DOMAIN result.ret.headers
                 /\ result.ret.headers["x-request-id"] = result.options.requestId )
         /\ ("token" \in DOMAIN result.options /\ result.options.token \notin {"", null})
            => ( /\ "x-github-token" \in DOMAIN result.ret.headers
                 /\ result.ret.headers["x-github-token"] = result.options.token )
         /\ ("lastModified" \in DOMAIN result.options /\ result.options.lastModified # "")
            => ( /\ "if-modified-since" \in DOMAIN result.ret.headers
                 /\ result.ret.headers["if-modified-since"] = result.options.lastModified )
         /\ DOMAIN result.ret \cap SecretKeys = {}
         /\ \A k \in DOMAIN result.ret : \E i \in 1..Len(k) : charAt(k, i) \notin SecretCharacters
         /\ \A k \in DOMAIN result.options \ (SecretKeys \cup {"requestId", "token", "headers"}) :
               k \in DOMAIN result.ret /\ result.ret[k] = result.options[k] )

\* options with a request id, a token, a time of last modification, headers
\* of their own and all five other keys were made into fetch options with
\* the three headers beside the one they had, without the two secrets
C32_Witness ==
    /\ result.op = "getFetchOptions"
    /\ DOMAIN result.options
         = {"requestId", "token", "lastModified", "fetchTimeout", "headers"}
           \cup OtherOptionKeys
    /\ result.options.requestId = "1234"
    /\ result.options.token = "foobar"
    /\ result.options.lastModified = "lm1"
    /\ result.options.headers = [accept |-> "text/html"]
    /\ DOMAIN result.ret
         = {"headers", "signal", "fetchTimeout", "lastModified", "cache", "Secret", "x_y"}
    /\ result.ret.headers
         = [n \in {"accept", "x-request-id", "x-github-token", "if-modified-since"} |->
               CASE n = "accept" -> "text/html"
                 [] n = "x-request-id" -> "1234"
                 [] n = "x-github-token" -> "foobar"
                 [] n = "if-modified-since" -> "lm1"]

\* the options of the unit test and what it expects of them
TestedOptions ==
    getFetchOptions([cache |-> "no-store", SUPER_SECRET |-> "foo",
                     fetchTimeout |-> 1000, requestId |-> "1234"])
      = [cache |-> "no-store", fetchTimeout |-> 1000, signal |-> timeoutSignal(1000),
         headers |-> [n \in {"x-request-id"} |-> "1234"]]

\* an empty request id, an empty token and an empty time of last
\* modification make no header, and a header the options bring stays
EmptyNotForwarded ==
    result.op = "getFetchOptions"
    => /\ ("requestId" \notin DOMAIN result.options \/ result.options.requestId = "")
          => ( "x-request-id" \in DOMAIN result.ret.headers
               <=> ( "headers" \in DOMAIN result.options
                     /\ "x-request-id" \in DOMAIN result.options.headers ) )
       /\ ("token" \notin DOMAIN result.options \/ result.options.token \in {"", null})
          => "x-github-token" \notin DOMAIN result.ret.headers
       /\ ("lastModified" \notin DOMAIN result.options \/ result.options.lastModified = "")
          => "if-modified-since" \notin DOMAIN result.ret.headers

\* the bucket b has the block of all public access and the tags of the
\* template bucket followed by those of the instance
Provisioned(st, b) ==
    /\ HasBucket(st, b)
    /\ st[b].pab
    /\ st[b].tags = TemplateTags \o MountTags

\* C33: whatever operations and backend failures came before, a content
\* bucket that one of the clients created holds an object only when the
\* block of all public access and the tag set have been applied to it.
C33_ObjectsInProvisionedBucket ==
    (\E k \in Keys : HasObject(s3, ContentBucket, k)) => Provisioned(s3, ContentBucket)

\* the same of a call alone: a call that created the bucket and then wrote an
\* object leaves the bucket with the block and the tags
ProvisionedByWritingCall ==
    [][ ( /\ Creations(calls') = 1
          /\ \E i \in DOMAIN calls' :
                /\ calls'[i].command.cmd \in {"PutObject", "CopyObject"}
                /\ ~calls'[i].err.isErr )
        => Provisioned(s3', ContentBucket) ]_vars

\* a store wrote an object into a bucket that an earlier call created and
\* left without the block of public access and without tags
WrittenUnprovisioned ==
    /\ result.op = "store"
    /\ Succeeded(result)
    /\ [i \in DOMAIN calls |-> calls[i].command.cmd] = <<"HeadBucket", "PutObject">>
    /\ HasObject(s3, ContentBucket, result.key)
    /\ ~s3[ContentBucket].pab
    /\ s3[ContentBucket].tags = <<>>

\* the invocation of the step is an update whose fetch was answered with a
\* status that is not a success
FailedUpdate ==
    /\ result'.op = "main"
    /\ result'.fetches # <<>>
    /\ result'.res.kind = "response"
    /\ ~ok(result'.res.status)

\* C34: an update whose fetch is answered with a status that is not a success
\* leaves the backend as it was: no object is written and no bucket is
\* created, also when useLastModified is true and the content bucket is
\* missing.
C34_FailedUpdateChangesNothing ==
    [][ FailedUpdate => s3' = s3 ]_vars

\* what such an update does: it keeps every object, and it leaves the
\* backend as it was unless useLastModified is true and the content bucket
\* is missing; then the read of the metadata creates the bucket, empty, with
\* the block of public access and the tags, when no command fails
FailedUpdateAsCoded ==
    [][ FailedUpdate
        => ( /\ ObjectsKept
             /\ Stores(calls') = {}
             /\ (~parseBoolean(result'.req.useLastModified, FALSE)
                   \/ HasBucket(s3, ContentBucket))
                => s3' = s3
             /\ ( /\ parseBoolean(result'.req.useLastModified, FALSE)
                  /\ ~HasBucket(s3, ContentBucket)
                  /\ ~result'.faulted )
                => ( /\ s3' # s3
                     /\ Creations(calls') = 1
                     /\ Provisioned(s3', ContentBucket)
                     /\ \A k \in Keys : ~HasObject(s3', ContentBucket, k) ) ) ]_vars

\* an update with useLastModified whose fetch was answered 404 ended with
\* the content bucket created
BucketOfFailedUpdate ==
    /\ result.op = "main"
    /\ parseBoolean(result.req.useLastModified, FALSE)
    /\ result.fetches # <<>>
    /\ result.res.kind = "response"
    /\ result.res.status = 404
    /\ Succeeded(result)
    /\ result.ret.status = 404
    /\ Creations(calls) = 1
    /\ HasBucket(s3, ContentBucket)

\* the keys of bucket b whose object the step changes
Changed(b) == {k \in Keys : ObjectAt(s3', b, k) # ObjectAt(s3, b, k)}

\* C35: a store changes no object but the one under its key, a copy none but
\* the one under its destination, so that the object under its source stays
\* as it was, a load and a metadata change none, and no call changes an
\* object of a bucket that is not the bucket of the client.
C35_OnlyTheTarget ==
    [][ /\ \A b \in Buckets \ {ContentBucket} : Changed(b) = {}
        /\ result'.op = "store" => Changed(ContentBucket) \subseteq {result'.key}
        /\ result'.op = "copy"
           => ( /\ Changed(ContentBucket) \subseteq {result'.dest}
                /\ ObjectAt(s3', ContentBucket, result'.key)
                     = ObjectAt(s3, ContentBucket, result'.key) )
        /\ result'.op \notin {"store", "copy"} => Changed(ContentBucket) = {} ]_vars

\* a copy replaced the object under its destination by the one under its
\* source, which is still there, beside the object of another bucket
C35_Witness ==
    /\ result.op = "copy"
    /\ Succeeded(result)
    /\ result.key # result.dest
    /\ result.source.exists
    /\ result.before.exists
    /\ result.before # result.source
    /\ ObjectAt(s3, ContentBucket, result.dest) = result.source
    /\ ObjectAt(s3, ContentBucket, result.key) = result.source
    /\ ObjectAt(s3, OtherBucket, "live/mnt/a") = PlainObject

\* a store replaced the object under its key while the other key of the
\* bucket held an object
StoredBesideAnother ==
    /\ result.op = "store"
    /\ Succeeded(result)
    /\ result.before.exists
    /\ result.before # ObjectAt(s3, ContentBucket, result.key)
    /\ \E k \in ContentKeys \ {result.key} : HasObject(s3, ContentBucket, k)

\* the positions of a log at which a command of _init was answered with an
\* error that _init raises: any error but the 404 of the check of existence
InitFailures(log) ==
    {i \in DOMAIN log :
        /\ log[i].command.cmd \in ProvisioningCommands
        /\ log[i].err.isErr
        /\ ~(log[i].command.cmd = "HeadBucket" /\ log[i].err.httpStatusCode = 404)}

\* C36: when a command of the initialization of a read-write client is
\* answered with an error (at the check of existence, at the read of the
\* template tags, at the creation of the bucket, at the block of public
\* access or at the tagging), the call that ran the initialization ends with
\* that error, having sent no command on an object and with every object as
\* it was, and leaves the client uninitialized; and the next call on that
\* client begins with the check of existence again.
C36_InitFailure ==
    [][ /\ ( /\ IsObjectOp(result')
             /\ InitFailures(calls') # {} )
           => ( /\ ~clients[result'.client].readOnly
                /\ ~clients[result'.client].initialized
                /\ InitFailures(calls') = {Len(calls')}
                /\ result'.err = calls'[Len(calls')].err
                /\ Commands(calls') \subseteq ProvisioningCommands
                /\ ObjectsKept
                /\ ~clients'[result'.client].initialized )
        /\ ( /\ IsObjectOp(result)
             /\ InitFailures(calls) # {}
             /\ IsObjectOp(result')
             /\ result'.client = result.client )
           => ( /\ calls' # <<>>
                /\ calls'[1].command.cmd = "HeadBucket" ) ]_vars

\* a store on the read-write client ended with the error of its
\* PutPublicAccessBlock, after the bucket was created, and left the client
\* uninitialized and the bucket empty
C36_Witness ==
    /\ result.op = "store"
    /\ result.client = RW
    /\ [i \in DOMAIN calls |-> calls[i].command.cmd]
         = <<"HeadBucket", "GetBucketTagging", "CreateBucket", "PutPublicAccessBlock">>
    /\ InitFailures(calls) = {4}
    /\ result.err = S3Error(503, "ServiceUnavailable")
    /\ ~clients[RW].initialized
    /\ HasBucket(s3, ContentBucket)
    /\ \A k \in Keys : ~HasObject(s3, ContentBucket, k)

\* a call failed in its initialization at the command cmd
InitFailedAt(cmd) ==
    /\ IsObjectOp(result)
    /\ InitFailures(calls) # {}
    /\ calls[Len(calls)].command.cmd = cmd

\* a call began with the check of existence again after the call before it,
\* on the same client, had failed in the initialization; the bucket that
\* call created is there, without the block of public access
InitializedAfterFailure ==
    /\ IsObjectOp(result)
    /\ result.client = RW
    /\ Succeeded(result)
    /\ calls # <<>>
    /\ calls[1].command.cmd = "HeadBucket"
    /\ ~calls[1].err.isErr
    /\ clients[RW].initialized
    /\ HasBucket(s3, ContentBucket)
    /\ ~s3[ContentBucket].pab
    /\ s3[ContentBucket].tags = <<>>
    /\ s3[ContentBucket] # EmptyBucket

====
